---- MODULE Spec2Model ----
(***************************************************************************)
(* korner-billing-service: the payment and wallet transaction engine, the  *)
(* subscription purchases, the renewal service and the platform fee rules. *)
(*                                                                         *)
(* The database tables are variables holding the COMMITTED rows.  A        *)
(* db.transaction(...) block is modelled statement by statement: its       *)
(* writes stay private to the running call (proc[p]) until the commit      *)
(* step, a thrown statement rolls every write of the block back, and an    *)
(* UPDATE takes the row lock until commit (PostgreSQL, READ COMMITTED, the *)
(* knex default: a plain SELECT neither takes nor waits for a lock).       *)
(* Statements issued on db(...) directly are autocommitted one by one; a   *)
(* storage failure is modelled where the code handles it (the ledger       *)
(* blocks and the statements inside a try/catch that goes on).             *)
(* Amounts are integers (minor units).                                     *)
(***************************************************************************)
EXTENDS Integers, Sequences, FiniteSets, TLC

(***************************************************************************)
(* Bounds of the model.                                                    *)
(***************************************************************************)
NumProcs == 3       \* calls made in one behaviour (a call keeps its slot)
MaxInFlight == 2    \* calls that may be in flight at the same time
MaxAmount == 2      \* amounts of debits and credits range over 1..MaxAmount
MaxBalance == 2     \* starting balances range over 0..MaxBalance
MaxExpiring == 2    \* subscriptions about to expire when a renewal pass begins

Procs == 1..NumProcs
Amounts == 1..MaxAmount
Buyer == 1
Seller == 2
Users == {Buyer, Seller}
Bar == 1            \* the purchasable item (bar) of the seller's profile

NoId == 0           \* SQL NULL in an id column, an undefined id
NoOrder == <<>>     \* SQL NULL in transactions.order_id

VARIABLES
  balances,       \* table balances (one currency): [user -> amount], DOMAIN = the rows
  transactions,   \* table transactions: sequence of rows, a row's id is its index
  rowLock,        \* [user -> process holding the lock of the user's balance row, or 0]
  proc,           \* [process -> the call it runs: operation, position, locals, result]
  tokens,         \* table payment_tokens: sequence of rows, a row's id is its index
  subscriptions,  \* table user_subscriptions: set of rows
  nextSubId,      \* the id sequence of user_subscriptions
  platformFees,   \* table platform_fees: sequence of rules
  orders,         \* the gateway: the charges it has accepted, [id, url, sent]: the
                  \* order_id, the module whose callback endpoint hears of the
                  \* charge, the operation_status values it has sent there
  now,            \* Date.now()
  startBalance,   \* history: the balances table of the initial state
  creditLog,      \* history: the committed balance increases, in commit order
  service         \* subscriptionRenewalService: intervalId and the armed timers

others == <<tokens, subscriptions, nextSubId, platformFees, orders, now>>
vars == <<balances, transactions, rowLock, proc, startBalance, creditLog, service, others>>

\* The renewal service as constructed: intervalId null, no timer armed.  The
\* fields started, stopped and atStop are history: start() and stop() have been
\* called, and the passes that were in flight when stop() was called.
NewService == [intervalId |-> "null", timers |-> {}, started |-> FALSE,
               stopped |-> FALSE, atStop |-> {}]

(***************************************************************************)
(* Helpers on tables.                                                      *)
(***************************************************************************)
RECURSIVE SumAmounts(_)
SumAmounts(rows) ==
  IF rows = <<>> THEN 0 ELSE Head(rows).amount + SumAmounts(Tail(rows))

HasRow(u) == u \in DOMAIN balances

\* A free slot: no call, no locals.
Idle == [op |-> "idle", pc |-> "idle", ret |-> "idle", fn |-> "none",
         acct |-> NoId, amt |-> 0, bar |-> NoId, sub |-> NoId,
         read |-> 0, existing |-> FALSE, wrote |-> FALSE,
         lres |-> "none", txid |-> NoId,
         user |-> NoId, kind |-> "none", token |-> NoId, tx |-> NoId,
         order |-> NoOrder, snap |-> "none", msg |-> [data |-> [order_id |-> NoOrder], sign |-> <<>>],
         paid |-> FALSE, http |-> 0,
         cands |-> {}, cur |-> NoId, tried |-> <<>>, failed |-> {}, before |-> {},
         selected |-> 0, successCount |-> 0, failureCount |-> 0,
         targets |-> {}, deactivated |-> {},
         fee |-> [feeAmount |-> 0, finalAmount |-> 0],
         dataObject |-> [order_id |-> NoOrder], decoded |-> [order_id |-> NoOrder]]

InFlight == {q \in Procs : proc[q].op # "idle" /\ proc[q].pc \notin {"done", "used"}}

\* The lowest free slot takes the next call, while at most `limit` are in flight.
FreeFor(p, limit) ==
  /\ proc[p].op = "idle"
  /\ \A q \in Procs : q < p => proc[q].op # "idle"
  /\ Cardinality(InFlight) < limit

Free(p) == FreeFor(p, MaxInFlight)

\* trx("transactions").insert({...}) of deductUserWallet /
\* deductUserWalletForSubscription
DeductRow(c) ==
  [user_id |-> c.acct, amount |-> c.amt,
   type |-> IF c.fn = "deductUserWallet" THEN "withdraw" ELSE "subscription",
   source |-> "wallet", status |-> "completed", order_id |-> NoOrder,
   bar_id |-> IF c.fn = "deductUserWallet" THEN c.bar ELSE NoId,
   user_subscription_id |-> IF c.fn = "deductUserWallet" THEN NoId ELSE c.sub,
   subscription_plan_id |-> NoId]

\* The locals of a call of fn(u, a, ...) that continues at pc `ret` of its caller.
LedgerCall(c, fn, u, a, bar, sub, ret) ==
  [c EXCEPT !.fn = fn, !.acct = u, !.amt = a, !.bar = bar, !.sub = sub,
            !.pc = IF fn = "depositUserWallet" THEN "deposit_read" ELSE "deduct_read",
            !.ret = ret, !.read = 0, !.existing = FALSE, !.wrote = FALSE,
            !.lres = "none", !.txid = NoId]

\* if (currentBalance < amount)
InsufficientBalanceLax(currentBalance, amount) == currentBalance <= 0
InsufficientBalance(currentBalance, amount) == currentBalance < amount

(***************************************************************************)
(* deductUserWallet / deductUserWalletForSubscription                      *)
(***************************************************************************)
\* const balance = await trx("balances")...first(); the two early returns.
DeductRead(p) ==
  LET c == proc[p] IN
  /\ c.pc = "deduct_read"
  /\ IF ~HasRow(c.acct)
       THEN proc' = [proc EXCEPT ![p].pc = c.ret, ![p].lres = "balance_not_found"]
       ELSE IF InsufficientBalance(balances[c.acct], c.amt)
         THEN proc' = [proc EXCEPT ![p].pc = c.ret, ![p].lres = "insufficient",
                                   ![p].read = balances[c.acct]]
         ELSE proc' = [proc EXCEPT ![p].pc = "deduct_decrement",
                                   ![p].read = balances[c.acct]]
  /\ UNCHANGED <<balances, transactions, rowLock, startBalance, service, creditLog, others>>

\* await trx("balances")...decrement("amount", amount): UPDATE balances SET
\* amount = amount - ?; waits for the row lock and keeps it until the block ends.
\* The new amount stays private to the block until its COMMIT.
DeductDecrement(p) ==
  LET c == proc[p] IN
  /\ c.pc = "deduct_decrement"
  /\ rowLock[c.acct] = 0
  /\ rowLock' = [rowLock EXCEPT ![c.acct] = p]
  /\ proc' = [proc EXCEPT ![p].pc = "deduct_insert", ![p].wrote = TRUE]
  /\ UNCHANGED <<balances, transactions, startBalance, service, creditLog, others>>

\* A statement of the block throws (storage failure): knex rolls the block back,
\* the catch returns { success: false, error: "Database transaction failed" }.
DeductFailKeepsWrites(p) ==
  LET c == proc[p] IN
  /\ c.pc \in {"deduct_decrement", "deduct_insert"}
  /\ rowLock' = [rowLock EXCEPT ![c.acct] = IF @ = p THEN 0 ELSE @]
  /\ balances' = IF c.wrote THEN [balances EXCEPT ![c.acct] = @ - c.amt] ELSE balances
  /\ proc' = [proc EXCEPT ![p].pc = c.ret, ![p].lres = "db_failed"]
  /\ UNCHANGED <<transactions, startBalance, service, creditLog, others>>

DeductFail(p) ==
  LET c == proc[p] IN
  /\ c.pc \in {"deduct_decrement", "deduct_insert"}
  /\ rowLock' = [rowLock EXCEPT ![c.acct] = IF @ = p THEN 0 ELSE @]
  /\ proc' = [proc EXCEPT ![p].pc = c.ret, ![p].lres = "db_failed"]
  /\ UNCHANGED <<balances, transactions, startBalance, service, creditLog, others>>

\* trx("transactions").insert(...).returning("id"), then the block's COMMIT: the
\* decrement and the row become visible together.
DeductInsert(p) ==
  LET c == proc[p] IN
  /\ c.pc = "deduct_insert"
  /\ balances' = [balances EXCEPT ![c.acct] = @ - c.amt]
  /\ transactions' = Append(transactions, DeductRow(c))
  /\ rowLock' = [rowLock EXCEPT ![c.acct] = 0]
  /\ proc' = [proc EXCEPT ![p].pc = c.ret, ![p].lres = "success",
                          ![p].txid = Len(transactions) + 1]
  /\ UNCHANGED <<startBalance, service, creditLog, others>>

(***************************************************************************)
(* depositUserWallet                                                       *)
(***************************************************************************)
\* const existingBalance = await trx("balances")...first()
DepositRead(p) ==
  LET c == proc[p] IN
  /\ c.pc = "deposit_read"
  /\ proc' = [proc EXCEPT ![p].pc = "deposit_write", ![p].existing = HasRow(c.acct)]
  /\ UNCHANGED <<balances, transactions, rowLock, startBalance, service, creditLog, others>>

\* if (existingBalance) increment else insert, then COMMIT.  The insert of a row
\* that exists by now violates the (user_id, currency_id) key and throws.
DepositWrite(p) ==
  LET c == proc[p]
      credit == [user |-> c.acct, amount |-> c.amt, order |-> c.order]
  IN
  /\ c.pc = "deposit_write"
  /\ IF c.existing
       THEN /\ rowLock[c.acct] = 0
            /\ balances' = [balances EXCEPT ![c.acct] = @ + c.amt]
            /\ creditLog' = Append(creditLog, credit)
            /\ proc' = [proc EXCEPT ![p].pc = c.ret, ![p].lres = "success"]
       ELSE IF HasRow(c.acct)
         THEN /\ proc' = [proc EXCEPT ![p].pc = c.ret, ![p].lres = "threw"]
              /\ UNCHANGED <<balances, creditLog>>
         ELSE /\ balances' = (c.acct :> c.amt) @@ balances
              /\ creditLog' = Append(creditLog, credit)
              /\ proc' = [proc EXCEPT ![p].pc = c.ret, ![p].lres = "success"]
  /\ UNCHANGED <<transactions, rowLock, startBalance, service, others>>

\* A statement of the block throws (storage failure): rolled back, rethrown.
DepositFail(p) ==
  /\ proc[p].pc = "deposit_write"
  /\ proc' = [proc EXCEPT ![p].pc = proc[p].ret, ![p].lres = "threw"]
  /\ UNCHANGED <<balances, transactions, rowLock, startBalance, service, creditLog, others>>

(***************************************************************************)
(* The wallet ledger on its own: concurrent calls of its three functions   *)
(* on one balance row.                                                     *)
(***************************************************************************)
\* A caller enters deductUserWallet(Buyer, a, Bar) or
\* deductUserWalletForSubscription(Buyer, a, 1).
StartDeduct(p) ==
  \E a \in Amounts, fn \in {"deductUserWallet", "deductUserWalletForSubscription"} :
    /\ Free(p)
    /\ proc' = [proc EXCEPT ![p] =
                  LedgerCall([Idle EXCEPT !.op = fn], fn, Buyer, a, Bar, 1, "done")]
    /\ UNCHANGED <<balances, transactions, rowLock, startBalance, service, creditLog, others>>

\* A caller enters depositUserWallet(Buyer, a).
StartDeposit(p) ==
  \E a \in Amounts :
    /\ Free(p)
    /\ proc' = [proc EXCEPT ![p] =
                  LedgerCall([Idle EXCEPT !.op = "depositUserWallet"],
                             "depositUserWallet", Buyer, a, NoId, NoId, "done")]
    /\ UNCHANGED <<balances, transactions, rowLock, startBalance, service, creditLog, others>>

InitLedger ==
  /\ balances \in {[u \in S |-> b] : S \in {{}, {Buyer}}, b \in 0..MaxBalance}
  /\ transactions = <<>>
  /\ rowLock = [u \in Users |-> 0]
  /\ proc = [p \in Procs |-> Idle]
  /\ startBalance = balances
  /\ creditLog = <<>>
  /\ tokens = <<>>
  /\ subscriptions = {}
  /\ nextSubId = 1
  /\ platformFees = <<>>
  /\ orders = {}
  /\ now = 1
  /\ service = NewService

LedgerStep(p) ==
  \/ DeductRead(p)
  \/ DeductDecrement(p)
  \/ DeductFail(p)
  \/ DeductInsert(p)
  \/ DepositRead(p)
  \/ DepositWrite(p)
  \/ DepositFail(p)

NextLedger ==
  \E p \in Procs :
    \/ StartDeduct(p)
    \/ StartDeposit(p)
    \/ LedgerStep(p)

SpecLedger == InitLedger /\ [][NextLedger]_vars

(***************************************************************************)
(* Tables and collaborators of the payment module.                         *)
(***************************************************************************)
BarPrice == MaxAmount     \* bar.monetized_details.price
Terminal == {"completed", "failed", "canceled"}

\* createTransaction's insert: the row of one money movement.
TxRow(u, a, type, source, status, bar, order) ==
  [user_id |-> u, amount |-> a, type |-> type, source |-> source, status |-> status,
   order_id |-> order, bar_id |-> bar, user_subscription_id |-> NoId,
   subscription_plan_id |-> NoId]

\* hasUserPurchasedBar: a completed, non-subscription row of the user for the bar.
hasUserPurchasedBar(u, bar) ==
  \E i \in DOMAIN transactions :
    /\ transactions[i].user_id = u
    /\ transactions[i].bar_id = bar
    /\ transactions[i].status = "completed"
    /\ transactions[i].type # "subscription"

\* getTransactionByOrderId: where({ order_id }).first() returns one of these rows.
getTransactionByOrderIdAnyRow(o) == DOMAIN transactions
getTransactionByOrderId(o) == {i \in DOMAIN transactions : transactions[i].order_id = o}

\* getPaymentTokenById(tokenId, userId): where({ id, user_id }).first()
getPaymentTokenById(id, u) == id \in DOMAIN tokens /\ tokens[id].user_id = u

\* getActiveSubscriptionInfo(userId).hasActiveSubscription: expired_at > now()
getActiveSubscriptionInfo(u) ==
  \E sb \in subscriptions : sb.user_id = u /\ sb.expires # "past"

\* Math.round(x) for x = n / d, d > 0: the nearest integer, halves upwards.
RoundDiv(n, d) == (2 * n + d) \div (2 * d)

\* getActiveFeeForCurrency: where({ currency_id, is_active: true }).first()
ActiveFees == {i \in DOMAIN platformFees : platformFees[i].is_active}

\* calculateFee with the rule `fee` (NoFee: no active rule): amounts in minor units,
\* so the rounding to two decimals is the rounding to an integer.
NoFee == [currency_id |-> NoId, fee_percentage |-> 0, min_fee_amount |-> 0,
          max_fee_amount |-> 0, is_active |-> FALSE]
\* calculateFee without the min_fee_amount and max_fee_amount steps.
calculateFeeUnclamped(amount, fee) ==
  IF fee = NoFee
    THEN [feeAmount |-> 0, finalAmount |-> amount]
    ELSE LET feeAmount == RoundDiv(amount * fee.fee_percentage, 100)
         IN [feeAmount |-> feeAmount, finalAmount |-> amount - feeAmount]

calculateFee(amount, fee) ==
  IF fee = NoFee
    THEN [feeAmount |-> 0, finalAmount |-> amount]
    ELSE LET raw == amount * fee.fee_percentage     \* hundredths of a minor unit
             lo == IF fee.min_fee_amount # 0 /\ raw < 100 * fee.min_fee_amount
                     THEN 100 * fee.min_fee_amount ELSE raw
             hi == IF fee.max_fee_amount # 0 /\ lo > 100 * fee.max_fee_amount
                     THEN 100 * fee.max_fee_amount ELSE lo
             feeAmount == RoundDiv(hi, 100)
         IN [feeAmount |-> feeAmount, finalAmount |-> amount - feeAmount]

\* The gateway protocol: HMAC-SHA512 as an injective function of key and data.
SecretKey == "OV_SECRET_KEY"
Hmac(key, data) == <<"hmac", key, data>>
Signatures(data) == {Hmac(SecretKey, data), Hmac("other key", data)}

\* verifyResponseSignature: TRUE when it returns, FALSE when it throws.
verifyResponseSignatureSkipped(data, sign, secretKey) == TRUE
verifyResponseSignature(data, sign, secretKey) == Hmac(secretKey, data) = sign

\* String.prototype.toLowerCase on the status words of the model.
ToLower(w) ==
  CASE w \in {"SUCCESS", "Success"} -> "success"
    [] w \in {"COMPLETED", "Completed"} -> "completed"
    [] w \in {"PAID", "Paid"} -> "paid"
    [] w \in {"APPROVED", "Approved"} -> "approved"
    [] w \in {"WITHDRAW", "Withdraw"} -> "withdraw"
    [] w \in {"FAILED", "Failed"} -> "failed"
    [] w \in {"ERROR", "Error"} -> "error"
    [] w \in {"DECLINED", "Declined"} -> "declined"
    [] w \in {"REJECTED", "Rejected"} -> "rejected"
    [] w \in {"CANCELLED", "Cancelled"} -> "cancelled"
    [] w \in {"CANCELED", "Canceled"} -> "canceled"
    [] w \in {"CANCEL", "Cancel"} -> "cancel"
    [] w \in {"PENDING", "Pending"} -> "pending"
    [] w \in {"CREATED", "Created"} -> "created"
    [] w \in {"ON_HOLD", "On_hold"} -> "on_hold"
    [] OTHER -> w

\* mapPaymentStatus without toLowerCase.
mapPaymentStatusCaseSensitive(paymentStatus) ==
  CASE paymentStatus \in {"success", "completed", "paid", "approved", "withdraw"} -> "completed"
    [] paymentStatus \in {"failed", "error", "declined", "rejected"} -> "failed"
    [] paymentStatus \in {"cancelled", "canceled", "cancel"} -> "canceled"
    [] OTHER -> "pending"

\* mapPaymentStatus
mapPaymentStatus(paymentStatus) ==
  LET w == ToLower(paymentStatus) IN
  CASE w \in {"success", "completed", "paid", "approved", "withdraw"} -> "completed"
    [] w \in {"failed", "error", "declined", "rejected"} -> "failed"
    [] w \in {"cancelled", "canceled", "cancel"} -> "canceled"
    [] OTHER -> "pending"

\* A status word outside the vocabulary of mapPaymentStatus.
Unrecognized == "on_hold"

\* What the gateway answers to charge-create and charge-recurrent.
SyncReplies ==
  {[success |-> TRUE, payment_status |-> "success", operation_status |-> "none"],
   [success |-> TRUE, payment_status |-> "approved", operation_status |-> "none"],
   [success |-> TRUE, payment_status |-> "created", operation_status |-> "none"],
   [success |-> TRUE, payment_status |-> Unrecognized, operation_status |-> "none"],
   [success |-> FALSE, payment_status |-> "declined", operation_status |-> "none"]}

\* The operation_status values of the callbacks the gateway delivers.
CallbackStatuses == {"success", "failed", Unrecognized}

\* order_id: `pay_${Date.now()}` or `recurrent_${Date.now()}`
OrderId(prefix) == <<prefix, now>>
isRecurrentPayment(order) == order # NoOrder /\ order[1] = "recurrent"

\* The decoded payload of a callback.
CallbackPayload(order, status) ==
  [order_id |-> order, operation_status |-> status, recurrent_token |-> order,
   pan_masked |-> "pan"]

\* A charge the gateway has accepted.
Charge(order, url) == [id |-> order, url |-> url, sent |-> {}]
ChargesOf(url) == {g \in orders : g.url = url}

\* The gateway sends the callback of charge g with operation_status `status`; a
\* message signed with another key is not the gateway's.
Deliver(g, status, sign) ==
  IF sign = Hmac(SecretKey, CallbackPayload(g.id, status))
    THEN (orders \ {g}) \cup {[g EXCEPT !.sent = @ \cup {status}]}
    ELSE orders

\* { data, sign }: data stands for the base64 text of the JSON payload.
Message(payload, sign) == [data |-> payload, sign |-> sign]
NoMsg == Message([order_id |-> NoOrder], <<>>)

\* The decoded payload of a gateway answer to the request with order_id `order`.
Payload(order, reply) ==
  [order_id |-> order, payment_status |-> reply.payment_status,
   operation_status |-> reply.operation_status]

\* successToken && (payment_status === "success" || payment_status === "withdraw"
\*                  || operation_status === "success")
isPaymentSuccessful(success, d) ==
  /\ success
  /\ \/ d.payment_status = "success"
     \/ d.payment_status = "withdraw"
     \/ d.operation_status = "success"

\* A finished call: its slot keeps what it was and what the caller got.
Finished(c, http, paid) ==
  [Idle EXCEPT !.op = c.op, !.pc = "done", !.kind = c.kind, !.order = c.order,
               !.tx = c.tx, !.snap = c.snap, !.user = c.user, !.msg = c.msg,
               !.http = http,
               !.paid = paid]

\* The seller credit without calculateFee: the whole amount is deposited.
CreditOwnerNoFee(c, found, feeId, amount, ret) ==
  IF found
    THEN LedgerCall(c, "depositUserWallet", Seller, amount, c.bar, NoId, ret)
    ELSE [c EXCEPT !.pc = ret, !.lres = "not_found"]

(***************************************************************************)
(* paymentService.createPayment(Buyer, { payment_type, token_id, bar_id })  *)
(***************************************************************************)
\* The seller-credit block after a paid purchase of `amount`: getProfileById, then
\* calculateFee and depositUserWallet(owner, finalAmount) -- or, when the profile
\* is not found or a lookup throws (caught), the end of the block.
CreditOwner(c, found, feeId, amount, ret) ==
  IF found
    THEN LedgerCall(c, "depositUserWallet", Seller,
                    calculateFee(amount, IF feeId = NoId THEN NoFee
                                         ELSE platformFees[feeId]).finalAmount,
                    c.bar, NoId, ret)
    ELSE [c EXCEPT !.pc = ret, !.lres = "not_found"]

FeeChoice == IF ActiveFees = {} THEN {NoId} ELSE ActiveFees

\* The checks before any money moves, up to the token_id check.
StartCreatePayment(p) ==
  \E ptype \in {"wallet", "token", "card"}, token_id \in 0..Len(tokens),
     barOk \in BOOLEAN :
    /\ Free(p)
    /\ ptype # "token" => token_id = NoId
    /\ LET c == [Idle EXCEPT !.op = "createPayment", !.kind = ptype, !.user = Buyer,
                             !.bar = Bar, !.token = token_id]
       IN proc' = [proc EXCEPT ![p] =
            IF ~barOk THEN Finished(c, 400, FALSE)
            ELSE IF ~getActiveSubscriptionInfo(Seller) THEN Finished(c, 403, FALSE)
            ELSE IF hasUserPurchasedBar(Buyer, Bar) THEN Finished(c, 400, FALSE)
            ELSE IF ptype = "token" /\ token_id = NoId THEN Finished(c, 400, FALSE)
            ELSE [c EXCEPT !.pc = IF ptype = "wallet" THEN "cp_balance" ELSE "cp_record"]]
    /\ UNCHANGED <<balances, transactions, rowLock, startBalance, service, creditLog, others>>

\* if (payment_type !== "wallet") transactionId = await createPaymentTransaction(...)
CpRecord(p) ==
  LET c == proc[p] IN
  /\ c.pc = "cp_record"
  /\ transactions' = Append(transactions,
       TxRow(c.user, BarPrice, "withdraw", "card", "pending", c.bar, NoOrder))
  /\ proc' = [proc EXCEPT ![p].pc = "cp_send", ![p].tx = Len(transactions) + 1]
  /\ UNCHANGED <<balances, rowLock, startBalance, service, creditLog, others>>

\* case "wallet": checkUserBalance, then deductUserWallet is entered.
CpBalance(p) ==
  LET c == proc[p] IN
  /\ c.pc = "cp_balance"
  /\ proc' = [proc EXCEPT ![p] =
       IF HasRow(c.user) /\ balances[c.user] >= BarPrice
         THEN LedgerCall(c, "deductUserWallet", c.user, BarPrice, c.bar, NoId, "cp_debited")
         ELSE Finished(c, 400, FALSE)]
  /\ UNCHANGED <<balances, transactions, rowLock, startBalance, service, creditLog, others>>

\* if (!deductionResult.success) throw; else the seller-credit block begins.
CpDebited(p) ==
  LET c == proc[p] IN
  /\ c.pc = "cp_debited"
  /\ \E found \in BOOLEAN, feeId \in FeeChoice :
       proc' = [proc EXCEPT ![p] =
         IF c.lres # "success" THEN Finished(c, 500, FALSE)
         ELSE CreditOwner([c EXCEPT !.tx = c.txid], found, feeId, BarPrice, "cp_credited")]
  /\ UNCHANGED <<balances, transactions, rowLock, startBalance, service, creditLog, others>>

\* case "token": getPaymentTokenById, then the charge-recurrent request is built
\* and sent; case "card": the charge-create request is built and sent.  The
\* gateway takes the charge under the request's order_id.
CpSend(p) ==
  LET c == proc[p]
      order == OrderId(IF c.kind = "token" THEN "recurrent" ELSE "pay")
  IN
  /\ c.pc = "cp_send"
  /\ IF c.kind = "token" /\ ~getPaymentTokenById(c.token, c.user)
       THEN /\ proc' = [proc EXCEPT ![p] = Finished(c, 404, FALSE)]
            /\ UNCHANGED orders
       ELSE /\ proc' = [proc EXCEPT ![p].pc = "cp_response", ![p].order = order]
            /\ orders' = orders \cup {Charge(order, "payment")}
  /\ UNCHANGED <<balances, transactions, rowLock, startBalance, service, creditLog,
                 tokens, subscriptions, nextSubId, platformFees, now>>

\* The gateway call throws (network error, timeout, HTTP error) or answers without
\* the required fields: the call ends with a 500.
CpResponseErrorMarksFailed(p) ==
  LET c == proc[p] IN
  /\ c.pc = "cp_response"
  /\ proc' = [proc EXCEPT ![p] = Finished([c EXCEPT !.order = NoOrder], 500, FALSE)]
  /\ transactions' = [transactions EXCEPT ![c.tx].status = "failed"]
  /\ now' = now + 1
  /\ UNCHANGED <<balances, rowLock, startBalance, service, creditLog,
                 tokens, subscriptions, nextSubId, platformFees, orders>>

CpResponseError(p) ==
  LET c == proc[p] IN
  /\ c.pc = "cp_response"
  /\ proc' = [proc EXCEPT ![p] = Finished([c EXCEPT !.order = NoOrder], 500, FALSE)]
  /\ now' = now + 1
  /\ UNCHANGED <<balances, transactions, rowLock, startBalance, service, creditLog,
                 tokens, subscriptions, nextSubId, platformFees, orders>>

\* The gateway's answer { data, sign, success, payment_id }: verifyResponseSignature,
\* then updatePaymentTransaction; on the token path a paid charge goes on to the
\* seller-credit block.
CpResponse(p) ==
  LET c == proc[p] IN
  /\ c.pc = "cp_response"
  /\ \E reply \in SyncReplies, found \in BOOLEAN, feeId \in FeeChoice :
     \E sign \in Signatures(Payload(c.order, reply)) :
       LET r == [c EXCEPT !.msg = Message(Payload(c.order, reply), sign)]
           paid == isPaymentSuccessful(reply.success, r.msg.data)
           status == IF c.kind = "token" /\ paid THEN "completed"
                     ELSE mapPaymentStatus(r.msg.data.payment_status)
       IN
       IF ~verifyResponseSignature(r.msg.data, r.msg.sign, SecretKey)
         THEN /\ proc' = [proc EXCEPT ![p] = Finished([r EXCEPT !.order = NoOrder], 500, FALSE)]
              /\ UNCHANGED transactions
         ELSE /\ transactions' = [transactions EXCEPT ![c.tx].order_id = r.msg.data.order_id,
                                                      ![c.tx].status = status]
              /\ proc' = [proc EXCEPT ![p] =
                   IF c.kind = "card"
                     THEN Finished(r, IF reply.success THEN 200 ELSE 400, reply.success)
                   ELSE IF paid
                     THEN CreditOwner(r, found, feeId, BarPrice, "cp_credited")
                     ELSE Finished(r, 400, FALSE)]
  /\ now' = now + 1
  /\ UNCHANGED <<balances, rowLock, startBalance, service, creditLog,
                 tokens, subscriptions, nextSubId, platformFees, orders>>

\* After depositUserWallet: createPaymentTransaction for the seller's deposit (a
\* throw of either is caught and logged), and the call returns success.
SellerRow(c) ==
  TxRow(Seller, c.amt, "deposit", IF c.kind = "wallet" THEN "wallet" ELSE "card",
        "completed", c.bar, IF c.kind = "wallet" THEN NoOrder ELSE c.order)

\* The seller-credit block without its try/catch: a failure of the block fails
\* the request.
CpCreditedRethrows(p) ==
  LET c == proc[p] IN
  /\ c.pc = "cp_credited"
  /\ \E inserted \in BOOLEAN :
       /\ transactions' = IF c.lres = "success" /\ inserted
                            THEN Append(transactions, SellerRow(c)) ELSE transactions
       /\ proc' = [proc EXCEPT ![p] =
            IF c.lres = "threw" \/ (c.lres = "success" /\ ~inserted)
              THEN Finished(c, 500, FALSE) ELSE Finished(c, 200, TRUE)]
  /\ UNCHANGED <<balances, rowLock, startBalance, service, creditLog, others>>

CpCredited(p) ==
  LET c == proc[p] IN
  /\ c.pc = "cp_credited"
  /\ \E inserted \in BOOLEAN :
       transactions' = IF c.lres = "success" /\ inserted
                         THEN Append(transactions, SellerRow(c)) ELSE transactions
  /\ proc' = [proc EXCEPT ![p] = Finished(c, 200, TRUE)]
  /\ UNCHANGED <<balances, rowLock, startBalance, service, creditLog, others>>

(***************************************************************************)
(* paymentService.callback(data, sign)                                     *)
(***************************************************************************)
\* createToken's insert from a callback payload.
TokenRow(u, d) == [user_id |-> u, token |-> d.recurrent_token, pan_masked |-> d.pan_masked]

\* The gateway delivers a callback for a charge it holds: verifyResponseSignature,
\* then getTransactionByOrderId (404 when there is no such row).
StartPaymentCallback(p) ==
  \E g \in ChargesOf("payment"), status \in CallbackStatuses :
  \E sign \in Signatures(CallbackPayload(g.id, status)) :
    LET c == [Idle EXCEPT !.op = "paymentCallback", !.kind = status, !.order = g.id,
                          !.msg = Message(CallbackPayload(g.id, status), sign)]
    IN
    /\ Free(p)
    /\ orders' = Deliver(g, status, sign)
    /\ IF ~verifyResponseSignature(c.msg.data, c.msg.sign, SecretKey)
         THEN proc' = [proc EXCEPT ![p] = Finished(c, 500, FALSE)]
         ELSE IF getTransactionByOrderId(g.id) = {}
           THEN proc' = [proc EXCEPT ![p] = Finished(c, 404, FALSE)]
           ELSE \E i \in getTransactionByOrderId(g.id) :
                  proc' = [proc EXCEPT ![p] =
                    [c EXCEPT !.pc = "cb_apply", !.tx = i, !.snap = transactions[i].status,
                              !.user = transactions[i].user_id,
                              !.bar = transactions[i].bar_id]]
    /\ UNCHANGED <<balances, transactions, rowLock, startBalance, service, creditLog,
                   tokens, subscriptions, nextSubId, platformFees, now>>

\* if (transaction.bar_id && transaction.status !== "completed")
CreditsSellerAlways(c) == c.bar # NoId
CreditsSeller(c) == c.bar # NoId /\ c.snap # "completed"

\* operation_status === "success": createToken, updatePaymentTransaction(completed),
\* then the seller-credit block for a bar purchase not yet completed when it was
\* read; any other status: updatePaymentTransaction(failed).
CbApply(p) ==
  LET c == proc[p]
      d == c.msg.data
  IN
  /\ c.pc = "cb_apply"
  /\ IF d.operation_status = "success"
       THEN /\ tokens' = Append(tokens, TokenRow(c.user, d))
            /\ transactions' = [transactions EXCEPT ![c.tx].order_id = d.order_id,
                                                    ![c.tx].status = "completed"]
            /\ \E found \in BOOLEAN, feeId \in FeeChoice :
                 proc' = [proc EXCEPT ![p] =
                   IF CreditsSeller(c)
                     THEN CreditOwner(c, found, feeId, transactions[c.tx].amount,
                                      "cb_credited")
                     ELSE Finished(c, 200, FALSE)]
       ELSE /\ transactions' = [transactions EXCEPT ![c.tx].order_id = d.order_id,
                                                    ![c.tx].status = "failed"]
            /\ proc' = [proc EXCEPT ![p] = Finished(c, 200, FALSE)]
            /\ UNCHANGED tokens
  /\ UNCHANGED <<balances, rowLock, startBalance, service, creditLog,
                 subscriptions, nextSubId, platformFees, orders, now>>

\* After depositUserWallet: createPaymentTransaction for the seller's deposit (a
\* throw of either is caught and logged); the callback is answered with success.
CbCredited(p) ==
  LET c == proc[p] IN
  /\ c.pc = "cb_credited"
  /\ \E inserted \in BOOLEAN :
       transactions' = IF c.lres = "success" /\ inserted
                         THEN Append(transactions,
                                TxRow(Seller, c.amt, "deposit", "card", "completed",
                                      c.bar, c.msg.data.order_id))
                         ELSE transactions
  /\ proc' = [proc EXCEPT ![p] = Finished(c, 200, c.lres = "success")]
  /\ UNCHANGED <<balances, rowLock, startBalance, service, creditLog, others>>

(***************************************************************************)
(* paymentService.getStatus(transactionId)                                 *)
(***************************************************************************)
\* getTransactionById, the status request, verifyResponseSignature on its answer.
GetStatus(p) ==
  \E i \in 0..Len(transactions), reply \in SyncReplies :
    LET c == [Idle EXCEPT !.op = "getStatus", !.tx = i] IN
    /\ Free(p)
    /\ IF i = NoId \/ transactions[i].order_id = NoOrder
         THEN proc' = [proc EXCEPT ![p] = Finished(c, 500, FALSE)]
         ELSE \E sign \in Signatures(Payload(transactions[i].order_id, reply)) :
                LET r == [c EXCEPT !.msg = Message(Payload(transactions[i].order_id, reply),
                                                   sign)]
                IN proc' = [proc EXCEPT ![p] =
                     IF ~verifyResponseSignature(r.msg.data, r.msg.sign, SecretKey)
                       THEN Finished(r, 500, FALSE)
                       ELSE Finished(r, IF reply.success THEN 200 ELSE 400, FALSE)]
    /\ UNCHANGED <<balances, transactions, rowLock, startBalance, service, creditLog, others>>

(***************************************************************************)
(* walletService.topUp(Buyer, { amount, paymentType, tokenId })            *)
(***************************************************************************)
\* The checks of the request fields.
StartTopUp(p) ==
  \E ptype \in {"token", "card"}, tokenId \in 0..Len(tokens), amount \in Amounts,
     fieldsOk \in BOOLEAN :
    /\ Free(p)
    /\ ptype # "token" => tokenId = NoId
    /\ LET c == [Idle EXCEPT !.op = "topUp", !.kind = ptype, !.user = Buyer,
                             !.token = tokenId, !.amt = amount]
       IN proc' = [proc EXCEPT ![p] =
            IF ~fieldsOk THEN Finished(c, 400, FALSE)
            ELSE IF ptype = "token" /\ tokenId = NoId THEN Finished(c, 400, FALSE)
            ELSE [c EXCEPT !.pc = "tu_record"]]
    /\ UNCHANGED <<balances, transactions, rowLock, startBalance, service, creditLog, others>>

\* const transactionId = await createPaymentTransaction({ deposit, card, pending })
TuRecord(p) ==
  LET c == proc[p] IN
  /\ c.pc = "tu_record"
  /\ transactions' = Append(transactions,
       TxRow(c.user, c.amt, "deposit", "card", "pending", NoId, NoOrder))
  /\ proc' = [proc EXCEPT ![p].pc = "tu_send", ![p].tx = Len(transactions) + 1]
  /\ UNCHANGED <<balances, rowLock, startBalance, service, creditLog, others>>

\* token: getPaymentTokenById, then the charge-recurrent request; card: the
\* charge-create request of createDepositPaymentRequest.
TuSend(p) ==
  LET c == proc[p]
      order == OrderId(IF c.kind = "token" THEN "recurrent" ELSE "pay")
  IN
  /\ c.pc = "tu_send"
  /\ IF c.kind = "token" /\ ~getPaymentTokenById(c.token, c.user)
       THEN /\ proc' = [proc EXCEPT ![p] = Finished(c, 404, FALSE)]
            /\ UNCHANGED orders
       ELSE /\ proc' = [proc EXCEPT ![p].pc = "tu_response", ![p].order = order]
            /\ orders' = orders \cup {Charge(order, "wallet")}
  /\ UNCHANGED <<balances, transactions, rowLock, startBalance, service, creditLog,
                 tokens, subscriptions, nextSubId, platformFees, now>>

\* The gateway call throws or answers without the required fields: a 500.
TuResponseError(p) ==
  LET c == proc[p] IN
  /\ c.pc = "tu_response"
  /\ proc' = [proc EXCEPT ![p] = Finished([c EXCEPT !.order = NoOrder], 500, FALSE)]
  /\ now' = now + 1
  /\ UNCHANGED <<balances, transactions, rowLock, startBalance, service, creditLog,
                 tokens, subscriptions, nextSubId, platformFees, orders>>

\* The gateway's answer: verifyResponseSignature; token: a paid charge goes on to
\* depositUserWallet, any other is recorded; card: the answer is recorded.
TuResponse(p) ==
  LET c == proc[p] IN
  /\ c.pc = "tu_response"
  /\ \E reply \in SyncReplies :
     \E sign \in Signatures(Payload(c.order, reply)) :
       LET r == [c EXCEPT !.msg = Message(Payload(c.order, reply), sign)]
           d == r.msg.data
           paid == isPaymentSuccessful(reply.success, d)
       IN
       IF ~verifyResponseSignature(r.msg.data, r.msg.sign, SecretKey)
         THEN /\ proc' = [proc EXCEPT ![p] = Finished([r EXCEPT !.order = NoOrder], 500, FALSE)]
              /\ UNCHANGED transactions
         ELSE IF c.kind = "token" /\ paid
           THEN /\ proc' = [proc EXCEPT ![p] =
                     LedgerCall(r, "depositUserWallet", c.user, c.amt, NoId, NoId,
                                "tu_deposited")]
                /\ UNCHANGED transactions
           ELSE /\ transactions' =
                     [transactions EXCEPT ![c.tx].order_id = d.order_id,
                                          ![c.tx].status = mapPaymentStatus(d.payment_status)]
                /\ proc' = [proc EXCEPT ![p] =
                     Finished(r, IF c.kind = "token" THEN 400 ELSE 200, FALSE)]
  /\ now' = now + 1
  /\ UNCHANGED <<balances, rowLock, startBalance, service, creditLog,
                 tokens, subscriptions, nextSubId, platformFees, orders>>

\* After depositUserWallet (a throw is caught and logged): the record is updated
\* to completed.
TuDeposited(p) ==
  LET c == proc[p] IN
  /\ c.pc = "tu_deposited"
  /\ transactions' = [transactions EXCEPT ![c.tx].order_id = c.msg.data.order_id,
                                          ![c.tx].status = "completed"]
  /\ proc' = [proc EXCEPT ![p] = Finished(c, 200, c.lres = "success")]
  /\ UNCHANGED <<balances, rowLock, startBalance, service, creditLog, others>>

(***************************************************************************)
(* walletService.callback(data, sign)                                      *)
(***************************************************************************)
StartWalletCallback(p) ==
  \E g \in ChargesOf("wallet"), status \in CallbackStatuses :
  \E sign \in Signatures(CallbackPayload(g.id, status)) :
    LET c == [Idle EXCEPT !.op = "walletCallback", !.kind = status, !.order = g.id,
                          !.msg = Message(CallbackPayload(g.id, status), sign)]
    IN
    /\ Free(p)
    /\ orders' = Deliver(g, status, sign)
    /\ IF ~verifyResponseSignature(c.msg.data, c.msg.sign, SecretKey)
         THEN proc' = [proc EXCEPT ![p] = Finished(c, 500, FALSE)]
         ELSE IF getTransactionByOrderId(g.id) = {}
           THEN proc' = [proc EXCEPT ![p] = Finished(c, 404, FALSE)]
           ELSE \E i \in getTransactionByOrderId(g.id) :
                  proc' = [proc EXCEPT ![p] =
                    [c EXCEPT !.pc = "wc_apply", !.tx = i, !.snap = transactions[i].status,
                              !.user = transactions[i].user_id]]
    /\ UNCHANGED <<balances, transactions, rowLock, startBalance, service, creditLog,
                   tokens, subscriptions, nextSubId, platformFees, now>>

\* operation_status === "success" && transaction.type === "deposit" &&
\* !isRecurrentPayment
DepositsOnCallback(c) ==
  /\ c.msg.data.operation_status = "success"
  /\ transactions[c.tx].type = "deposit"
  /\ ~isRecurrentPayment(c.msg.data.order_id)

\* The deposit branch: createToken (a throw is caught), then depositUserWallet is
\* entered; otherwise the deposit is skipped.
WcApply(p) ==
  LET c == proc[p]
      d == c.msg.data
  IN
  /\ c.pc = "wc_apply"
  /\ IF DepositsOnCallback(c)
       THEN /\ \E tokenSaved \in BOOLEAN :
                 tokens' = IF tokenSaved THEN Append(tokens, TokenRow(c.user, d))
                           ELSE tokens
            /\ proc' = [proc EXCEPT ![p] =
                 LedgerCall(c, "depositUserWallet", c.user, transactions[c.tx].amount,
                            NoId, NoId, "wc_update")]
       ELSE /\ proc' = [proc EXCEPT ![p].pc = "wc_update"]
            /\ UNCHANGED tokens
  /\ UNCHANGED <<balances, transactions, rowLock, startBalance, service, creditLog,
                 subscriptions, nextSubId, platformFees, orders, now>>

\* updatePaymentTransaction(status: success ? "completed" : "failed")
WcUpdate(p) ==
  LET c == proc[p]
      d == c.msg.data
  IN
  /\ c.pc = "wc_update"
  /\ transactions' =
       [transactions EXCEPT ![c.tx].order_id = d.order_id,
                            ![c.tx].status = IF d.operation_status = "success"
                                               THEN "completed" ELSE "failed"]
  /\ proc' = [proc EXCEPT ![p] = Finished(c, 200, c.lres = "success")]
  /\ UNCHANGED <<balances, rowLock, startBalance, service, creditLog, others>>

(***************************************************************************)
(* subscriptionService.create(Buyer, { payment_type, plan_id, price_id,    *)
(* token_id })                                                             *)
(***************************************************************************)
Plan == 1         \* the subscription plan on sale
PlanPrice == 1    \* parseFloat(planPrice.price)

\* createSubscription's insert: the row, valid for one period from now.  Its
\* field payment is history: the order_id of the payment it was created for.
SubscriptionRow(id, u, method, pan, payment) ==
  [id |-> id, user_id |-> u, plan |-> Plan, is_auto_renewal |-> TRUE,
   payment_method |-> method, masked_pan |-> pan, expires |-> "later",
   payment |-> payment]

\* getSubscriptionInfoByTransactionId: the row joined with its plan and price.
getSubscriptionInfoByTransactionId(i) == transactions[i].subscription_plan_id # NoId

\* createSubscriptionRequestBody: the order_id of a card subscription request.
SubscriptionOrderId == OrderId("pay")

\* The checks of the request fields, getSubscriptionPlanPrice.
StartCreateSubscription(p) ==
  \E ptype \in {"wallet", "token", "card"}, token_id \in 0..Len(tokens),
     fieldsOk \in BOOLEAN, planOk \in BOOLEAN :
    /\ Free(p)
    /\ ptype # "token" => token_id = NoId
    /\ LET c == [Idle EXCEPT !.op = "createSubscription", !.kind = ptype, !.user = Buyer,
                             !.token = token_id, !.amt = PlanPrice]
       IN proc' = [proc EXCEPT ![p] =
            IF ~fieldsOk THEN Finished(c, 400, FALSE)
            ELSE IF ptype = "token" /\ token_id = NoId THEN Finished(c, 400, FALSE)
            ELSE IF ~planOk THEN Finished(c, 404, FALSE)
            ELSE [c EXCEPT !.pc = "cs_record"]]
    /\ UNCHANGED <<balances, transactions, rowLock, startBalance, service, creditLog, others>>

\* const transactionId = await createPaymentTransaction({ subscription, pending })
CsRecord(p) ==
  LET c == proc[p]
      row == TxRow(c.user, c.amt, "subscription",
                   IF c.kind = "wallet" THEN "wallet" ELSE "card", "pending", NoId, NoOrder)
  IN
  /\ c.pc = "cs_record"
  /\ transactions' = Append(transactions, [row EXCEPT !.subscription_plan_id = Plan])
  /\ proc' = [proc EXCEPT ![p].pc = IF c.kind = "wallet" THEN "cs_balance" ELSE "cs_send",
                          ![p].tx = Len(transactions) + 1]
  /\ UNCHANGED <<balances, rowLock, startBalance, service, creditLog, others>>

\* case "wallet": checkUserBalance
CsBalance(p) ==
  LET c == proc[p] IN
  /\ c.pc = "cs_balance"
  /\ proc' = [proc EXCEPT ![p] =
       IF HasRow(c.user) /\ balances[c.user] >= c.amt
         THEN [c EXCEPT !.pc = "cs_subscribe"]
         ELSE Finished(c, 400, FALSE)]
  /\ UNCHANGED <<balances, transactions, rowLock, startBalance, service, creditLog, others>>

\* createSubscription({ wallet }), then deductUserWalletForSubscription is entered.
CsSubscribe(p) ==
  LET c == proc[p] IN
  /\ c.pc = "cs_subscribe"
  /\ subscriptions' = subscriptions \cup
       {SubscriptionRow(nextSubId, c.user, "wallet", "none", NoOrder)}
  /\ nextSubId' = nextSubId + 1
  /\ proc' = [proc EXCEPT ![p] =
       LedgerCall(c, "deductUserWalletForSubscription", c.user, c.amt, NoId, nextSubId,
                  "cs_debited")]
  /\ UNCHANGED <<balances, transactions, rowLock, startBalance, service, creditLog,
                 tokens, platformFees, orders, now>>

\* if (!deductionResult.success) { deleteSubscription; throw } else the record is
\* updated to completed.  deleteSubscription returns false when its delete throws.
CsDebited(p) ==
  LET c == proc[p] IN
  /\ c.pc = "cs_debited"
  /\ IF c.lres # "success"
       THEN /\ \E deleted \in BOOLEAN :
                 subscriptions' = IF deleted THEN {sb \in subscriptions : sb.id # c.sub}
                                  ELSE subscriptions
            /\ proc' = [proc EXCEPT ![p] = Finished(c, 500, FALSE)]
            /\ UNCHANGED transactions
       ELSE /\ transactions' = [transactions EXCEPT ![c.tx].user_subscription_id = c.sub,
                                                    ![c.tx].status = "completed"]
            /\ proc' = [proc EXCEPT ![p] = Finished(c, 200, TRUE)]
            /\ UNCHANGED subscriptions
  /\ UNCHANGED <<balances, rowLock, startBalance, service, creditLog,
                 tokens, nextSubId, platformFees, orders, now>>

\* token: getPaymentTokenById, then the charge-recurrent request; card: the
\* charge-create request of createSubscriptionRequestBody.
CsSend(p) ==
  LET c == proc[p]
      order == IF c.kind = "token" THEN OrderId("recurrent") ELSE SubscriptionOrderId
  IN
  /\ c.pc = "cs_send"
  /\ IF c.kind = "token" /\ ~getPaymentTokenById(c.token, c.user)
       THEN /\ proc' = [proc EXCEPT ![p] = Finished(c, 404, FALSE)]
            /\ UNCHANGED orders
       ELSE /\ proc' = [proc EXCEPT ![p].pc = "cs_response", ![p].order = order]
            /\ orders' = orders \cup {Charge(order, "subscription")}
  /\ UNCHANGED <<balances, transactions, rowLock, startBalance, service, creditLog,
                 tokens, subscriptions, nextSubId, platformFees, now>>

\* The gateway call throws or answers without the required fields: a 500.
CsResponseError(p) ==
  LET c == proc[p] IN
  /\ c.pc = "cs_response"
  /\ proc' = [proc EXCEPT ![p] = Finished([c EXCEPT !.order = NoOrder], 500, FALSE)]
  /\ now' = now + 1
  /\ UNCHANGED <<balances, transactions, rowLock, startBalance, service, creditLog,
                 tokens, subscriptions, nextSubId, platformFees, orders>>

\* The gateway's answer: verifyResponseSignature; token: a paid charge creates the
\* subscription and completes the record, any other is recorded; card: the answer
\* is recorded.
CsResponse(p) ==
  LET c == proc[p] IN
  /\ c.pc = "cs_response"
  /\ \E reply \in SyncReplies :
     \E sign \in Signatures(Payload(c.order, reply)) :
       LET r == [c EXCEPT !.msg = Message(Payload(c.order, reply), sign)]
           d == r.msg.data
           paid == isPaymentSuccessful(reply.success, d)
       IN
       IF ~verifyResponseSignature(r.msg.data, r.msg.sign, SecretKey)
         THEN /\ proc' = [proc EXCEPT ![p] = Finished([r EXCEPT !.order = NoOrder], 500, FALSE)]
              /\ UNCHANGED <<transactions, subscriptions, nextSubId>>
         ELSE IF c.kind = "token" /\ paid
           THEN /\ subscriptions' = subscriptions \cup
                     {SubscriptionRow(nextSubId, c.user, "card",
                                      tokens[c.token].pan_masked, d.order_id)}
                /\ nextSubId' = nextSubId + 1
                /\ transactions' =
                     [transactions EXCEPT ![c.tx].order_id = d.order_id,
                                          ![c.tx].status = "completed",
                                          ![c.tx].user_subscription_id = nextSubId]
                /\ proc' = [proc EXCEPT ![p] = Finished(r, 200, TRUE)]
           ELSE /\ transactions' =
                     [transactions EXCEPT ![c.tx].order_id = d.order_id,
                                          ![c.tx].status = mapPaymentStatus(d.payment_status)]
                /\ proc' = [proc EXCEPT ![p] =
                     Finished(r, IF c.kind = "card" /\ reply.success THEN 200 ELSE 400,
                              FALSE)]
                /\ UNCHANGED <<subscriptions, nextSubId>>
  /\ now' = now + 1
  /\ UNCHANGED <<balances, rowLock, startBalance, service, creditLog, tokens, platformFees, orders>>

(***************************************************************************)
(* subscriptionService.callback(data, sign)                                *)
(***************************************************************************)
StartSubscriptionCallback(p) ==
  \E g \in ChargesOf("subscription"), status \in CallbackStatuses :
  \E sign \in Signatures(CallbackPayload(g.id, status)) :
    LET c == [Idle EXCEPT !.op = "subscriptionCallback", !.kind = status, !.order = g.id,
                          !.msg = Message(CallbackPayload(g.id, status), sign)]
    IN
    /\ Free(p)
    /\ orders' = Deliver(g, status, sign)
    /\ IF ~verifyResponseSignature(c.msg.data, c.msg.sign, SecretKey)
         THEN proc' = [proc EXCEPT ![p] = Finished(c, 500, FALSE)]
         ELSE IF getTransactionByOrderId(g.id) = {}
           THEN proc' = [proc EXCEPT ![p] = Finished(c, 404, FALSE)]
           ELSE \E i \in getTransactionByOrderId(g.id) :
                  proc' = [proc EXCEPT ![p] =
                    [c EXCEPT !.pc = "sc_apply", !.tx = i, !.snap = transactions[i].status,
                              !.user = transactions[i].user_id]]
    /\ UNCHANGED <<balances, transactions, rowLock, startBalance, service, creditLog,
                   tokens, subscriptions, nextSubId, platformFees, now>>

\* operation_status === "success": createToken, createSubscription when the record
\* names a plan (a throw is caught), updatePaymentTransaction(completed); any other
\* status: nothing.
ScApply(p) ==
  LET c == proc[p]
      d == c.msg.data
  IN
  /\ c.pc = "sc_apply"
  /\ IF d.operation_status = "success"
       THEN /\ tokens' = Append(tokens, TokenRow(c.user, d))
            /\ \E created \in BOOLEAN :
                 IF getSubscriptionInfoByTransactionId(c.tx) /\ created
                   THEN /\ subscriptions' = subscriptions \cup
                             {SubscriptionRow(nextSubId, c.user, "card", d.pan_masked,
                                              d.order_id)}
                        /\ nextSubId' = nextSubId + 1
                        /\ proc' = [proc EXCEPT ![p] = Finished(c, 200, TRUE)]
                   ELSE /\ proc' = [proc EXCEPT ![p] = Finished(c, 200, FALSE)]
                        /\ UNCHANGED <<subscriptions, nextSubId>>
            /\ transactions' = [transactions EXCEPT ![c.tx].order_id = d.order_id,
                                                    ![c.tx].status = "completed"]
       ELSE /\ proc' = [proc EXCEPT ![p] = Finished(c, 200, FALSE)]
            /\ UNCHANGED <<transactions, tokens, subscriptions, nextSubId>>
  /\ UNCHANGED <<balances, rowLock, startBalance, service, creditLog, platformFees, orders, now>>

(***************************************************************************)
(* subscriptionService.recurrent(Buyer, amount, token)                     *)
(***************************************************************************)
\* The charge-recurrent request is built from the amount and the token of the
\* request body and sent; no statement before it touches the database.  The
\* token of the body is the token string of a row of payment_tokens, named here
\* by the row's id, or a string no row holds (NoId).
StartRecurrent(p) ==
  \E amount \in Amounts, token \in {NoId} \cup DOMAIN tokens :
    LET order == OrderId("recurrent")
        c == [Idle EXCEPT !.op = "recurrent", !.kind = "token", !.user = Buyer,
                          !.amt = amount, !.order = order, !.token = token]
    IN
    /\ Free(p)
    /\ proc' = [proc EXCEPT ![p] = [c EXCEPT !.pc = "rc_response"]]
    /\ orders' = orders \cup {Charge(order, "subscription")}
    /\ UNCHANGED <<balances, transactions, rowLock, startBalance, service, creditLog,
                   tokens, subscriptions, nextSubId, platformFees, now>>

\* The gateway call throws or answers without the required fields: a 500.
RcResponseError(p) ==
  LET c == proc[p] IN
  /\ c.pc = "rc_response"
  /\ proc' = [proc EXCEPT ![p] = Finished([c EXCEPT !.order = NoOrder], 500, FALSE)]
  /\ now' = now + 1
  /\ UNCHANGED <<balances, transactions, rowLock, startBalance, service, creditLog,
                 tokens, subscriptions, nextSubId, platformFees, orders>>

\* The gateway's answer: verifyResponseSignature, then the decoded answer is
\* returned to the caller.
RcResponse(p) ==
  LET c == proc[p] IN
  /\ c.pc = "rc_response"
  /\ \E reply \in SyncReplies :
     \E sign \in Signatures(Payload(c.order, reply)) :
       LET r == [c EXCEPT !.msg = Message(Payload(c.order, reply), sign)] IN
       proc' = [proc EXCEPT ![p] =
         IF ~verifyResponseSignature(r.msg.data, r.msg.sign, SecretKey)
           THEN Finished([r EXCEPT !.order = NoOrder], 500, FALSE)
           ELSE Finished(r, IF reply.success THEN 200 ELSE 400, reply.success)]
  /\ now' = now + 1
  /\ UNCHANGED <<balances, transactions, rowLock, startBalance, service, creditLog,
                 tokens, subscriptions, nextSubId, platformFees, orders>>

(***************************************************************************)
(* SubscriptionRenewalService.processRenewals()                            *)
(***************************************************************************)
PlanTwoCurrencies == 2    \* a plan priced in two currencies
PlanNoPrice == 3          \* a plan without a row in subscription_plans_prices

\* subscription_plans_prices: the price rows of a plan.
PlanPrices(plan) ==
  CASE plan = Plan -> {[price_id |-> 1, price |-> PlanPrice]}
    [] plan = PlanTwoCurrencies -> {[price_id |-> 2, price |-> 1],
                                    [price_id |-> 3, price |-> MaxAmount]}
    [] OTHER -> {}

\* The rows of user_subscriptions JOIN subscription_plans LEFT JOIN
\* subscription_plans_prices: one per price row of the plan, one with NULLs for
\* a plan without prices.
JoinPrices(sb) ==
  LET row(pr) == [subscription_id |-> sb.id, user_id |-> sb.user_id, plan |-> sb.plan,
                  payment_method |-> sb.payment_method, masked_pan |-> sb.masked_pan,
                  price_id |-> pr.price_id, price |-> pr.price]
  IN IF PlanPrices(sb.plan) = {}
       THEN {row([price_id |-> NoId, price |-> 0])}
       ELSE {row(pr) : pr \in PlanPrices(sb.plan)}

\* getExpiringSubscriptions: is_auto_renewal, expired_at within the next 24 hours.
getExpiringSubscriptions ==
  UNION {JoinPrices(sb) : sb \in {x \in subscriptions :
                                    x.is_auto_renewal /\ x.expires = "soon"}}

\* db("payment_tokens").where(user_id).where(pan_masked).orderBy(created_at desc)
TokensFor(u, pan) ==
  {i \in DOMAIN tokens : tokens[i].user_id = u /\ tokens[i].pan_masked = pan}

\* The candidates are taken in the order of the query's result: by subscription,
\* then by price row.
FirstOf(cands) ==
  {cand \in cands :
     \A other \in cands :
       \/ cand.subscription_id < other.subscription_id
       \/ /\ cand.subscription_id = other.subscription_id
          /\ cand.price_id <= other.price_id}

\* The pass begins: the candidates are read (an error of the query is caught and
\* gives no candidates).  What calls processRenewals says what becomes of the
\* timers.
StartProcessRenewals(p) ==
  \E queried \in BOOLEAN :
    LET expiringSubscriptions == IF queried THEN getExpiringSubscriptions ELSE {} IN
    /\ Free(p)
    /\ proc' = [proc EXCEPT ![p] =
         [Idle EXCEPT !.op = "processRenewals", !.pc = "rn_next",
                      !.cands = expiringSubscriptions,
                      !.selected = Cardinality(expiringSubscriptions),
                      !.before = subscriptions]]
    /\ UNCHANGED <<balances, transactions, rowLock, startBalance, creditLog, others>>

\* for (const subscription of expiringSubscriptions): renewSubscription up to its
\* early returns -- wallet-funded, no payment token of the user with the
\* subscription's masked pan, no price information; after the last candidate the
\* pass goes on to the cleanup.
RnNext(p) ==
  LET c == proc[p] IN
  /\ c.pc = "rn_next"
  /\ IF c.cands = {}
       THEN proc' = [proc EXCEPT ![p].pc = "rn_cleanup", ![p].cur = NoId]
       ELSE \E cand \in FirstOf(c.cands) :
              LET r == [c EXCEPT !.cands = @ \ {cand}, !.cur = cand.subscription_id,
                                 !.tried = Append(@, cand.subscription_id),
                                 !.user = cand.user_id, !.amt = cand.price,
                                 !.sub = cand.plan, !.tx = NoId, !.order = NoOrder,
                                 !.msg = NoMsg,
                                 !.token = IF TokensFor(cand.user_id, cand.masked_pan) = {}
                                             THEN NoId
                                             ELSE CHOOSE i \in TokensFor(cand.user_id,
                                                                         cand.masked_pan) :
                                                    \A j \in TokensFor(cand.user_id,
                                                                        cand.masked_pan) :
                                                      j <= i]
                  renewable == /\ cand.payment_method = "card"
                               /\ r.token # NoId
                               /\ cand.price_id # NoId
              IN proc' = [proc EXCEPT ![p] =
                   [r EXCEPT !.pc = IF renewable THEN "rn_record" ELSE "rn_disable"]]
  /\ UNCHANGED <<balances, transactions, rowLock, startBalance, service, creditLog, others>>

\* const transactionId = await createPaymentTransaction({ subscription, card,
\* pending, subscriptionPlanId })
RnRecord(p) ==
  LET c == proc[p]
      row == TxRow(c.user, c.amt, "subscription", "card", "pending", NoId, NoOrder)
  IN
  /\ c.pc = "rn_record"
  /\ transactions' = Append(transactions, [row EXCEPT !.subscription_plan_id = c.sub])
  /\ proc' = [proc EXCEPT ![p].pc = "rn_send", ![p].tx = Len(transactions) + 1]
  /\ UNCHANGED <<balances, rowLock, startBalance, service, creditLog, others>>

\* createPaymentRecurrentRequestBody (utils/subscription): the order_id of the
\* renewal's charge-recurrent request.
RenewalOrderId == OrderId("recurrent")

\* The charge-recurrent request is built with the token and sent.
RnSend(p) ==
  LET c == proc[p] IN
  /\ c.pc = "rn_send"
  /\ proc' = [proc EXCEPT ![p].pc = "rn_response", ![p].order = RenewalOrderId]
  /\ orders' = orders \cup {Charge(RenewalOrderId, "subscription")}
  /\ UNCHANGED <<balances, transactions, rowLock, startBalance, service, creditLog,
                 tokens, subscriptions, nextSubId, platformFees, now>>

\* The gateway call throws or answers without the required fields: the catch of
\* renewSubscription returns false.
RnResponseError(p) ==
  LET c == proc[p] IN
  /\ c.pc = "rn_response"
  /\ proc' = [proc EXCEPT ![p].pc = "rn_disable"]
  /\ now' = now + 1
  /\ UNCHANGED <<balances, transactions, rowLock, startBalance, service, creditLog,
                 tokens, subscriptions, nextSubId, platformFees, orders>>

\* success && (payment_status === "success" || payment_status === "withdraw")
isRenewalPaid(success, d) ==
  success /\ (d.payment_status = "success" \/ d.payment_status = "withdraw")

\* What the gateway answers to the charge-recurrent of a renewal.
RenewalReplies == SyncReplies

\* The gateway's answer: verifyResponseSignature (its throw is caught: false),
\* updatePaymentTransaction with the mapped status; a paid charge creates the new
\* subscription and completes the record (a throw of createSubscription is
\* caught: false), any other answer returns false.
RnResponse(p) ==
  LET c == proc[p] IN
  /\ c.pc = "rn_response"
  /\ \E reply \in RenewalReplies, created \in BOOLEAN :
     \E sign \in Signatures(Payload(c.order, reply)) :
       LET r == [c EXCEPT !.msg = Message(Payload(c.order, reply), sign)]
           d == r.msg.data
       IN
       IF ~verifyResponseSignature(r.msg.data, r.msg.sign, SecretKey)
         THEN /\ proc' = [proc EXCEPT ![p] = [r EXCEPT !.pc = "rn_disable"]]
              /\ UNCHANGED <<transactions, subscriptions, nextSubId>>
         ELSE IF isRenewalPaid(reply.success, d) /\ created
           THEN /\ subscriptions' = subscriptions \cup
                     {[SubscriptionRow(nextSubId, c.user, "card",
                                       tokens[c.token].pan_masked, d.order_id)
                         EXCEPT !.plan = c.sub]}
                /\ nextSubId' = nextSubId + 1
                /\ transactions' =
                     [transactions EXCEPT ![c.tx].order_id = d.order_id,
                                          ![c.tx].status = "completed",
                                          ![c.tx].user_subscription_id = nextSubId]
                /\ proc' = [proc EXCEPT ![p] =
                     [r EXCEPT !.pc = "rn_next", !.successCount = @ + 1]]
           ELSE /\ transactions' =
                     [transactions EXCEPT ![c.tx].order_id = d.order_id,
                                          ![c.tx].status = mapPaymentStatus(d.payment_status)]
                /\ proc' = [proc EXCEPT ![p] = [r EXCEPT !.pc = "rn_disable"]]
                /\ UNCHANGED <<subscriptions, nextSubId>>
  /\ now' = now + 1
  /\ UNCHANGED <<balances, rowLock, startBalance, service, creditLog, tokens, platformFees, orders>>

\* disableAutoRenewal without its try/catch: a throw of the update reaches the
\* catch of processRenewals, which ends the pass.
RnDisableAborts(p) ==
  LET c == proc[p] IN
  /\ c.pc = "rn_disable"
  /\ \E updated \in BOOLEAN :
       IF updated
         THEN /\ subscriptions' =
                   {IF sb.id = c.cur THEN [sb EXCEPT !.is_auto_renewal = FALSE] ELSE sb :
                      sb \in subscriptions}
              /\ proc' = [proc EXCEPT ![p].pc = "rn_next", ![p].failed = @ \cup {c.cur},
                                      ![p].failureCount = @ + 1]
         ELSE /\ subscriptions' = subscriptions
              /\ proc' = [proc EXCEPT ![p].pc = "done", ![p].failureCount = @ + 1]
  /\ UNCHANGED <<balances, transactions, rowLock, startBalance, service, creditLog,
                 tokens, nextSubId, platformFees, orders, now>>

\* failureCount++; await this.disableAutoRenewal(subscription.subscription_id):
\* update({ is_auto_renewal: false }) where id; a throw of the update is caught.
RnDisable(p) ==
  LET c == proc[p] IN
  /\ c.pc = "rn_disable"
  /\ \E updated \in BOOLEAN :
       subscriptions' =
         IF updated
           THEN {IF sb.id = c.cur THEN [sb EXCEPT !.is_auto_renewal = FALSE] ELSE sb :
                   sb \in subscriptions}
           ELSE subscriptions
  /\ proc' = [proc EXCEPT ![p].pc = "rn_next", ![p].failed = @ \cup {c.cur},
                          ![p].failureCount = @ + 1]
  /\ UNCHANGED <<balances, transactions, rowLock, startBalance, service, creditLog,
                 tokens, nextSubId, platformFees, orders, now>>

\* cleanupExpiredSubscriptions: the rows expired for more than twelve months are
\* deleted (a throw is caught), and the pass ends.
RnCleanup(p) ==
  LET c == proc[p] IN
  /\ c.pc = "rn_cleanup"
  /\ \E deleted \in BOOLEAN :
       subscriptions' = IF deleted
                          THEN {sb \in subscriptions : sb.expires # "long_past"}
                          ELSE subscriptions
  /\ proc' = [proc EXCEPT ![p].pc = "done"]
  /\ UNCHANGED <<balances, transactions, rowLock, startBalance, service, creditLog,
                 tokens, nextSubId, platformFees, orders, now>>

RenewalStep(p) ==
  \/ RnNext(p)
  \/ RnRecord(p)
  \/ RnSend(p)
  \/ RnResponseError(p)
  \/ RnResponse(p)
  \/ RnDisable(p)
  \/ RnCleanup(p)

(***************************************************************************)
(* The payment module under concurrent requests and callbacks.             *)
(***************************************************************************)
SellerSubscription ==
  [SubscriptionRow(1, Seller, "wallet", "none", NoOrder) EXCEPT !.is_auto_renewal = FALSE]

FeeRule == [currency_id |-> 1, fee_percentage |-> 50, min_fee_amount |-> 0,
            max_fee_amount |-> 0, is_active |-> TRUE]

\* The cards saved before: one of the seller, one of the buyer.
SavedTokens ==
  <<[user_id |-> Seller, token |-> <<"pay", 0>>, pan_masked |-> "pan"],
    [user_id |-> Buyer, token |-> <<"pay", 0>>, pan_masked |-> "pan"]>>

Init ==
  /\ balances \in {[u \in {Buyer} |-> b] : b \in {0, MaxBalance}}
  /\ transactions = <<>>
  /\ rowLock = [u \in Users |-> 0]
  /\ proc = [p \in Procs |-> Idle]
  /\ startBalance = balances
  /\ creditLog = <<>>
  /\ tokens = SavedTokens
  /\ subscriptions = {SellerSubscription}
  /\ nextSubId = 2
  /\ platformFees = <<FeeRule>>
  /\ orders = {}
  /\ now = 1
  /\ service = NewService

PaymentStart(p) ==
  \/ StartCreatePayment(p)
  \/ StartPaymentCallback(p)

PaymentStep(p) ==
  \/ CpRecord(p)
  \/ CpBalance(p)
  \/ CpDebited(p)
  \/ CpSend(p)
  \/ CpResponseError(p)
  \/ CpResponse(p)
  \/ CpCredited(p)
  \/ CbApply(p)
  \/ CbCredited(p)

Next == \E p \in Procs : PaymentStart(p) \/ PaymentStep(p) \/ LedgerStep(p)

Spec == Init /\ [][Next]_vars

(***************************************************************************)
(* The three modules, one request or callback at a time.                   *)
(***************************************************************************)
WalletStart(p) ==
  \/ StartTopUp(p)
  \/ StartWalletCallback(p)

WalletStep(p) ==
  \/ TuRecord(p)
  \/ TuSend(p)
  \/ TuResponseError(p)
  \/ TuResponse(p)
  \/ TuDeposited(p)
  \/ WcApply(p)
  \/ WcUpdate(p)

SubscriptionStart(p) ==
  \/ StartCreateSubscription(p)
  \/ StartSubscriptionCallback(p)
  \/ StartRecurrent(p)

SubscriptionStep(p) ==
  \/ CsRecord(p)
  \/ CsBalance(p)
  \/ CsSubscribe(p)
  \/ CsDebited(p)
  \/ CsSend(p)
  \/ CsResponseError(p)
  \/ CsResponse(p)
  \/ ScApply(p)
  \/ RcResponseError(p)
  \/ RcResponse(p)

\* The response is sent and the locals of the call are gone.
Forget(p) ==
  /\ proc[p].pc = "done"
  /\ proc' = [proc EXCEPT ![p] = [Idle EXCEPT !.op = "used", !.pc = "used"]]
  /\ UNCHANGED <<balances, transactions, rowLock, startBalance, service, creditLog, others>>

Quiet == \A q \in Procs : proc[q].pc \in {"idle", "used"}

NextSeq ==
  \E p \in Procs :
    \/ Forget(p)
    \/ /\ Quiet
       /\ \/ PaymentStart(p)
          \/ GetStatus(p)
          \/ WalletStart(p)
          \/ SubscriptionStart(p)
    \/ PaymentStep(p)
    \/ WalletStep(p)
    \/ SubscriptionStep(p)
    \/ LedgerStep(p)

SpecSeq == Init /\ [][NextSeq]_vars

(***************************************************************************)
(* The renewal pass, the callbacks of its charges, one at a time.          *)
(***************************************************************************)
\* A subscription that expires within the next 24 hours, auto-renewal enabled.
Expiring(id, u, method, pan, plan) ==
  [SubscriptionRow(id, u, method, pan, NoOrder) EXCEPT !.plan = plan, !.expires = "soon"]

\* The subscriptions a pass may find: wallet-funded; card-funded with a masked
\* pan no stored token carries; on a plan without prices; card-funded with a
\* stored token; on a plan priced in two currencies.
ExpiringPool ==
  {Expiring(1, Buyer, "wallet", "none", Plan),
   Expiring(2, Buyer, "card", "gone", Plan),
   Expiring(3, Seller, "card", "pan", PlanNoPrice),
   Expiring(4, Buyer, "card", "pan", Plan),
   Expiring(5, Seller, "card", "pan", PlanTwoCurrencies)}

\* A subscription that expired more than twelve months ago.
LongExpired ==
  [SubscriptionRow(6, Buyer, "wallet", "none", NoOrder)
     EXCEPT !.is_auto_renewal = FALSE, !.expires = "long_past"]

InitRenew ==
  /\ balances = [u \in {Buyer} |-> 0]
  /\ transactions = <<>>
  /\ rowLock = [u \in Users |-> 0]
  /\ proc = [p \in Procs |-> Idle]
  /\ startBalance = balances
  /\ creditLog = <<>>
  /\ tokens = SavedTokens
  /\ subscriptions \in {S \cup {LongExpired} :
                          S \in {T \in SUBSET ExpiringPool : Cardinality(T) <= MaxExpiring}}
  /\ nextSubId = 7
  /\ platformFees = <<FeeRule>>
  /\ orders = {}
  /\ now = 1
  /\ service = NewService

\* start(): the first pass runs at once, before any request is served.
Started == \E q \in Procs : proc[q].op # "idle"

NextRenew ==
  \E p \in Procs :
    \/ Forget(p)
    \/ ~Started /\ StartProcessRenewals(p) /\ UNCHANGED service
    \/ Quiet /\ StartSubscriptionCallback(p)
    \/ RenewalStep(p)
    \/ ScApply(p)

SpecRenew == InitRenew /\ [][NextRenew]_vars

\* The start-up pass alone.  Every await of the pass returns or throws: the
\* queries, the gateway call and the one-second pause between candidates.
NextPass ==
  \E p \in Procs :
    \/ ~Started /\ StartProcessRenewals(p) /\ UNCHANGED service
    \/ RenewalStep(p)

SpecPass == InitRenew /\ [][NextPass]_vars /\ WF_vars(NextPass)

(***************************************************************************)
(* The timers of the renewal service: start(), the timeout until midnight, *)
(* the 24-hour interval it arms, stop().  A timer callback and stop() run  *)
(* to their end before anything else runs; a pass they start goes on       *)
(* between them.  The timers are hours apart and a pass takes seconds: a   *)
(* timer fires when no pass is in flight.                                  *)
(***************************************************************************)
\* start(), called once when the server listens: a pass begins at once, and
\* scheduleNext arms the timeout until midnight and keeps it in intervalId.
ServiceStart(p) ==
  /\ ~service.started
  /\ StartProcessRenewals(p)
  /\ service' = [service EXCEPT !.started = TRUE, !.intervalId = "timeout",
                                !.timers = @ \cup {"timeout"}]

\* The timeout fires: a pass begins, and the callback arms the interval and
\* keeps it in intervalId.
TimeoutFires(p) ==
  /\ "timeout" \in service.timers
  /\ InFlight = {}
  /\ StartProcessRenewals(p)
  /\ service' = [service EXCEPT !.intervalId = "interval",
                                !.timers = (@ \ {"timeout"}) \cup {"interval"}]

\* The interval fires: a pass begins.
IntervalFires(p) ==
  /\ "interval" \in service.timers
  /\ InFlight = {}
  /\ StartProcessRenewals(p)
  /\ UNCHANGED service

\* stop() that forgets intervalId without clearing the timer.
ServiceStopKeepsTimers ==
  /\ service.started /\ ~service.stopped
  /\ service' = [service EXCEPT !.intervalId = "null", !.stopped = TRUE,
                                !.atStop = {q \in Procs : proc[q].op = "processRenewals"
                                                          /\ proc[q].pc # "done"}]
  /\ UNCHANGED <<balances, transactions, rowLock, proc, startBalance, creditLog, others>>

\* stop(): if (this.intervalId) clearTimeout(id), clearInterval(id) -- either
\* clears a timer of either kind -- and intervalId = null.
ServiceStop ==
  /\ service.started /\ ~service.stopped
  /\ service' = [service EXCEPT !.intervalId = "null", !.stopped = TRUE,
                                !.timers = IF service.intervalId = "null" THEN @
                                           ELSE @ \ {service.intervalId},
                                !.atStop = {q \in Procs : proc[q].op = "processRenewals"
                                                          /\ proc[q].pc # "done"}]
  /\ UNCHANGED <<balances, transactions, rowLock, proc, startBalance, creditLog, others>>

\* One card-funded subscription is about to expire, its user has a saved card.
InitTimer ==
  /\ balances = [u \in {Buyer} |-> 0]
  /\ transactions = <<>>
  /\ rowLock = [u \in Users |-> 0]
  /\ proc = [p \in Procs |-> Idle]
  /\ startBalance = balances
  /\ creditLog = <<>>
  /\ tokens = SavedTokens
  /\ subscriptions = {Expiring(4, Buyer, "card", "pan", Plan), LongExpired}
  /\ nextSubId = 7
  /\ platformFees = <<FeeRule>>
  /\ orders = {}
  /\ now = 1
  /\ service = NewService

NextTimer ==
  \/ ServiceStop
  \/ \E p \in Procs :
       \/ ServiceStart(p)
       \/ TimeoutFires(p)
       \/ IntervalFires(p)
       \/ RenewalStep(p)

\* Every await of a pass returns or throws.
SpecTimer == InitTimer /\ [][NextTimer]_vars /\ WF_vars(\E p \in Procs : RenewalStep(p))

(***************************************************************************)
(* The fee rules: createPlatformFee and updatePlatformFee, as the requests *)
(* POST /fee and PUT /fee/:feeId call them, under concurrent requests.     *)
(***************************************************************************)
MaxCurrency == 2

\* createPlatformFee: the transaction begins and its UPDATE ... WHERE currency_id
\* AND is_active finds the rows to change among the committed rows.
StartCreatePlatformFee(p) ==
  \E currency_id \in 1..MaxCurrency :
    /\ Free(p)
    /\ proc' = [proc EXCEPT ![p] =
         [Idle EXCEPT !.op = "createPlatformFee", !.pc = "cf_update",
                      !.acct = currency_id,
                      !.targets = {i \in ActiveFees :
                                     platformFees[i].currency_id = currency_id}]]
    /\ UNCHANGED <<balances, transactions, rowLock, startBalance, service, creditLog, others>>

\* The UPDATE waits for the transactions that hold a lock on one of its rows,
\* then changes and locks the rows that still match is_active; what it writes is
\* not seen by others before the commit.
CfUpdate(p) ==
  LET c == proc[p] IN
  /\ c.pc = "cf_update"
  /\ \A q \in Procs \ {p} : proc[q].deactivated \cap c.targets = {}
  /\ proc' = [proc EXCEPT ![p].pc = "cf_insert",
                          ![p].deactivated = {i \in c.targets : platformFees[i].is_active}]
  /\ UNCHANGED <<balances, transactions, rowLock, startBalance, service, creditLog, others>>

\* The INSERT of the new active rule and the commit; a throw rolls back.
CfInsert(p) ==
  LET c == proc[p] IN
  /\ c.pc = "cf_insert"
  /\ \E committed \in BOOLEAN :
       platformFees' =
         IF committed
           THEN Append([i \in DOMAIN platformFees |->
                          IF i \in c.deactivated
                            THEN [platformFees[i] EXCEPT !.is_active = FALSE]
                            ELSE platformFees[i]],
                       [FeeRule EXCEPT !.currency_id = c.acct])
           ELSE platformFees
  /\ proc' = [proc EXCEPT ![p] = [Idle EXCEPT !.op = "createPlatformFee", !.pc = "done"]]
  /\ UNCHANGED <<balances, transactions, rowLock, startBalance, service, creditLog,
                 tokens, subscriptions, nextSubId, orders, now>>

\* updatePlatformFee: one UPDATE ... WHERE id = feeId of the fields given; it
\* waits while the row is locked by a transaction.
UpdatePlatformFee(p) ==
  \E feeId \in 1..(Len(platformFees) + 1), given \in BOOLEAN, is_active \in BOOLEAN :
    /\ Free(p)
    /\ \A q \in Procs : feeId \notin proc[q].deactivated
    /\ platformFees' =
         IF feeId \in DOMAIN platformFees /\ given
           THEN [platformFees EXCEPT ![feeId].is_active = is_active]
           ELSE platformFees
    /\ proc' = [proc EXCEPT ![p] = [Idle EXCEPT !.op = "updatePlatformFee", !.pc = "done"]]
    /\ UNCHANGED <<balances, transactions, rowLock, startBalance, service, creditLog,
                   tokens, subscriptions, nextSubId, orders, now>>

InitFees ==
  /\ balances = [u \in {Buyer} |-> 0]
  /\ transactions = <<>>
  /\ rowLock = [u \in Users |-> 0]
  /\ proc = [p \in Procs |-> Idle]
  /\ startBalance = balances
  /\ creditLog = <<>>
  /\ tokens = <<>>
  /\ subscriptions = {}
  /\ nextSubId = 1
  /\ platformFees = <<>>
  /\ orders = {}
  /\ now = 1
  /\ service = NewService

NextFees ==
  \E p \in Procs :
    \/ StartCreatePlatformFee(p)
    \/ CfUpdate(p)
    \/ CfInsert(p)
    \/ UpdatePlatformFee(p)

SpecFees == InitFees /\ [][NextFees]_vars

(***************************************************************************)
(* Properties of the wallet ledger.                                        *)
(***************************************************************************)
IsDebitRow(r) == r.source = "wallet" /\ r.type \in {"withdraw", "subscription"}
DebitRowsOf(u) == SelectSeq(transactions, LAMBDA r : IsDebitRow(r) /\ r.user_id = u)
CreditsOf(u) == SelectSeq(creditLog, LAMBDA e : e.user = u)
StartOf(u) == IF u \in DOMAIN startBalance THEN startBalance[u] ELSE 0
BalanceOf(u) == IF HasRow(u) THEN balances[u] ELSE 0
IsDeduct(c) == c.fn \in {"deductUserWallet", "deductUserWalletForSubscription"}

\* C1: under every interleaving of concurrent debits of one balance row, the
\* amounts of the debits that succeed sum to at most the starting balance (plus
\* what was credited meanwhile), and the balance is never negative.
C1_DebitsNeverOverdraw ==
  \A u \in Users :
    /\ BalanceOf(u) >= 0
    /\ SumAmounts(DebitRowsOf(u)) <= StartOf(u) + SumAmounts(CreditsOf(u))

\* C8: a debit that finds no balance row, or a balance below its amount, returns
\* a failure result in that very step, and the step changes no balance and
\* appends no transaction row.
C8_FailedDebitChangesNothing ==
  [][\A p \in Procs :
       LET c == proc[p] IN
       (/\ c.pc = "deduct_read"
        /\ proc'[p] # c
        /\ (~HasRow(c.acct) \/ balances[c.acct] < c.amt))
       => /\ proc'[p].pc = c.ret
          /\ proc'[p].lres \in {"balance_not_found", "insufficient"}
          /\ balances' = balances
          /\ transactions' = transactions]_vars

C8_Witness ==
  \E p \in Procs :
    /\ proc[p].lres = "insufficient"
    /\ proc[p].read < proc[p].amt
    /\ balances = startBalance
    /\ transactions = <<>>

\* C9: the decrement of a debit and its transaction row are one atomic unit: in
\* every state the committed balance is the starting balance plus the credits
\* minus the amounts of the debit rows, also after a debit failed between its
\* two writes; a debit that reports success has its row, of its amount.
C9_DebitAtomic ==
  /\ \A u \in Users :
       BalanceOf(u) = StartOf(u) + SumAmounts(CreditsOf(u)) - SumAmounts(DebitRowsOf(u))
  /\ \A p \in Procs :
       (IsDeduct(proc[p]) /\ proc[p].lres = "success")
       => /\ proc[p].txid \in DOMAIN transactions
          /\ transactions[proc[p].txid] = DeductRow(proc[p])

C9_Witness ==
  \E p, q \in Procs :
    /\ IsDeduct(proc[p]) /\ proc[p].lres = "success"
    /\ IsDeduct(proc[q]) /\ proc[q].lres = "db_failed" /\ proc[q].wrote
    /\ balances[Buyer] = startBalance[Buyer] - proc[p].amt
    /\ Len(transactions) = 1

(***************************************************************************)
(* Properties of the payment module.                                       *)
(***************************************************************************)
\* The completed purchases of the bar by the buyer: what hasUserPurchasedBar finds.
PurchasesOf(u, bar) ==
  {i \in DOMAIN transactions :
     /\ transactions[i].user_id = u
     /\ transactions[i].bar_id = bar
     /\ transactions[i].status = "completed"
     /\ transactions[i].type # "subscription"}

IsDepositRow(r) == r.type = "deposit" /\ r.status = "completed"
DepositRowsOf(u) == SelectSeq(transactions, LAMBDA r : IsDepositRow(r) /\ r.user_id = u)

\* C5: a transaction row whose status is completed, failed or canceled keeps
\* that status in every later step.
C5_TerminalStatusFinal ==
  [][\A i \in DOMAIN transactions :
       transactions[i].status \in Terminal
       => transactions'[i].status = transactions[i].status]_vars

\* C6: under any interleaving of createPayment calls and purchase callbacks, at
\* most one purchase of the bar by the buyer completes.
C6_AtMostOnePurchase == Cardinality(PurchasesOf(Buyer, Bar)) <= 1

\* C10: every committed increase of a balance has its ledger row, of the same
\* amount, and no ledger row is without its increase: the credits of a wallet
\* and its deposit rows are the same amounts in the same order.
C10_CreditHasLedgerRow ==
  \A u \in Users :
    [k \in DOMAIN CreditsOf(u) |-> CreditsOf(u)[k].amount]
      = [k \in DOMAIN DepositRowsOf(u) |-> DepositRowsOf(u)[k].amount]

(***************************************************************************)
(* Properties of the callbacks and of the signature check.                 *)
(***************************************************************************)
CreditsFor(u, o) == SelectSeq(creditLog, LAMBDA e : e.user = u /\ e.order = o)
SellerRowsFor(o) ==
  {i \in DOMAIN transactions :
     /\ transactions[i].user_id = Seller
     /\ transactions[i].type = "deposit"
     /\ transactions[i].order_id = o}
SubscriptionsFor(o) == {sb \in subscriptions : sb.payment = o}

\* The gateway has sent the success callback of the charge, and no other.
OnlySuccessSent(g) == g.sent = {"success"}

\* C2: however often the successful callback of a wallet top-up is delivered,
\* the user's wallet is credited for that order at most once.
C2_TopUpCreditedOnce ==
  \A g \in ChargesOf("wallet") :
    OnlySuccessSent(g) => Len(CreditsFor(Buyer, g.id)) <= 1

\* C3: however often the successful callback of a subscription payment is
\* delivered, at most one subscription row exists for that payment.
C3_OneSubscriptionPerOrder ==
  \A g \in ChargesOf("subscription") :
    OnlySuccessSent(g) => Cardinality(SubscriptionsFor(g.id)) <= 1

C12_CreatedPending ==
  [][\A i \in DOMAIN transactions' \ DOMAIN transactions :
       transactions'[i].status = "pending"]_vars

\* C14: no two transaction rows carry the same order_id, unless it is NULL.
C14_OrderIdUnique ==
  \A i, j \in DOMAIN transactions :
    (i # j /\ transactions[i].order_id # NoOrder)
    => transactions[i].order_id # transactions[j].order_id

\* A request rejected with a client-facing error before any answer of the gateway
\* was received.
Rejected(c) ==
  /\ c.op \in {"createPayment", "createSubscription", "topUp"}
  /\ c.pc = "done"
  /\ c.http \in {400, 403, 404}
  /\ c.msg = NoMsg

\* C15: a request rejected with a client-facing error has created no transaction
\* row.
C15_RejectionLeavesNoRecord ==
  \A p \in Procs : Rejected(proc[p]) => proc[p].tx = NoId

\* The rows that record the wallet debit of a finished wallet-funded purchase:
\* the buyer's wallet rows for the bar, or for the subscription it paid.
RecordsOfDebit(c) ==
  {i \in DOMAIN transactions :
     /\ transactions[i].user_id = c.user
     /\ transactions[i].source = "wallet"
     /\ IF c.op = "createPayment"
          THEN /\ transactions[i].type = "withdraw"
               /\ transactions[i].bar_id = transactions[c.tx].bar_id
          ELSE /\ transactions[i].type = "subscription"
               /\ transactions[i].user_subscription_id
                    = transactions[c.tx].user_subscription_id}

WalletPurchaseDone(c) ==
  /\ c.op \in {"createPayment", "createSubscription"}
  /\ c.kind = "wallet"
  /\ c.pc = "done"
  /\ c.paid

\* C13: after a wallet-funded purchase of the bar or of a subscription has
\* succeeded, exactly one transaction row records the buyer's debit.
C13_OneRecordPerWalletDebit ==
  \A p \in Procs :
    WalletPurchaseDone(proc[p]) => Cardinality(RecordsOfDebit(proc[p])) = 1

(***************************************************************************)
(* Properties of the callback handlers.                                    *)
(***************************************************************************)
Callbacks == {"paymentCallback", "walletCallback", "subscriptionCallback"}

\* Process p receives, in this step, a callback with the gateway's signature
\* whose order_id no transaction row carries.
UnknownOrderDelivered(p) ==
  /\ proc[p].op \notin Callbacks
  /\ proc'[p].op \in Callbacks
  /\ proc'[p].msg.sign = Hmac(SecretKey, proc'[p].msg.data)
  /\ \A i \in DOMAIN transactions :
       transactions[i].order_id # proc'[p].msg.data.order_id

\* C17: a correctly signed callback whose order_id matches no transaction row
\* is answered with 404 by the payment, the wallet and the subscription handler,
\* and creates no row, token or subscription and changes no balance.
C17_UnknownOrderRejected ==
  [][\A p \in Procs :
       UnknownOrderDelivered(p)
       => /\ proc'[p].pc = "done"
          /\ proc'[p].http = 404
          /\ UNCHANGED <<balances, transactions, tokens, subscriptions>>]_vars

C17_Witness ==
  \E p \in Procs :
    /\ proc[p].op = "walletCallback" /\ proc[p].pc = "done"
    /\ proc[p].kind = "success"
    /\ proc[p].msg.sign = Hmac(SecretKey, proc[p].msg.data)
    /\ proc[p].http = 404
    /\ \A i \in DOMAIN transactions : transactions[i].order_id # proc[p].order
    /\ Len(transactions) = 1 /\ transactions[1].status = "pending"
    /\ creditLog = <<>>

(***************************************************************************)
(* Properties of the gateway round trip.                                   *)
(***************************************************************************)
\* Process p waits for the gateway's answer to its charge request and, in this
\* step, the call fails or answers without the required fields.
GatewayCallFails(p) ==
  /\ proc[p].pc \in {"cp_response", "tu_response", "cs_response"}
  /\ proc'[p].pc = "done"
  /\ proc'[p].msg = NoMsg

TopUpCompleted(g) ==
  \E i \in DOMAIN transactions :
    /\ transactions[i].order_id = g.id
    /\ transactions[i].type = "deposit"
    /\ transactions[i].status = "completed"

\* C19: the wallet is credited exactly once for a completed token-funded top-up
\* (order_id recurrent_...), whatever callbacks were delivered for it.
C19_TokenTopUpCreditedOnce ==
  \A g \in ChargesOf("wallet") :
    (isRecurrentPayment(g.id) /\ TopUpCompleted(g))
    => Len(CreditsFor(Buyer, g.id)) = 1

(***************************************************************************)
(* Properties of the status vocabulary.                                    *)
(***************************************************************************)
\* The status words mapPaymentStatus knows.
Vocabulary ==
  {"success", "completed", "paid", "approved", "withdraw",
   "failed", "error", "declined", "rejected",
   "cancelled", "canceled", "cancel",
   "pending", "processing", "waiting", "created", "in_progress", "initiated"}

\* In this step process p applies a correctly signed gateway answer, or a
\* callback, whose status word is outside the vocabulary.
AppliesUnrecognized(p) ==
  \/ /\ proc[p].pc \in {"cp_response", "tu_response", "cs_response"}
     /\ proc'[p].msg # NoMsg
     /\ proc'[p].msg.sign = Hmac(SecretKey, proc'[p].msg.data)
     /\ ToLower(proc'[p].msg.data.payment_status) \notin Vocabulary
  \/ /\ proc[p].pc \in {"cb_apply", "wc_apply", "wc_update", "sc_apply"}
     /\ proc'[p] # proc[p]
     /\ ToLower(proc[p].msg.data.operation_status) \notin Vocabulary

\* C18: a step that applies a status word outside the vocabulary leaves a
\* pending transaction row pending.
C18_UnrecognizedKeepsPending ==
  [][\A p \in Procs :
       (AppliesUnrecognized(p) /\ transactions[proc[p].tx].status = "pending")
       => transactions'[proc[p].tx].status = "pending"]_vars

\* The amount, and the record type, of the attempt a call makes.
AttemptAmount(c) == IF c.op = "createPayment" THEN BarPrice ELSE c.amt
AttemptType(c) ==
  CASE c.op = "createPayment" -> "withdraw"
    [] c.op = "topUp" -> "deposit"
    [] OTHER -> "subscription"

\* In this step process p sends a charge-create or charge-recurrent request.
SendsCharge(p) ==
  /\ proc'[p].pc \in {"cp_response", "tu_response", "cs_response", "rc_response"}
  /\ proc'[p].pc # proc[p].pc

\* C11: a step that sends a charge request is taken by a call that has created
\* a transaction row, still pending, of the attempt's user, amount and type.
C11_PendingRecordBeforeCharge ==
  [][\A p \in Procs :
       SendsCharge(p)
       => /\ proc'[p].tx \in DOMAIN transactions
          /\ transactions[proc'[p].tx].status = "pending"
          /\ transactions[proc'[p].tx].user_id = proc'[p].user
          /\ transactions[proc'[p].tx].amount = AttemptAmount(proc'[p])
          /\ transactions[proc'[p].tx].type = AttemptType(proc'[p])]_vars

(***************************************************************************)
(* Properties of the renewal pass.                                         *)
(***************************************************************************)
PassDone(c) == c.op = "processRenewals" /\ c.pc = "done"
Attempts(c, id) == Cardinality({k \in DOMAIN c.tried : c.tried[k] = id})

\* The subscription row `id` is what it was when the pass began, but for
\* is_auto_renewal, which is false.
DisabledOnly(c, id) ==
  \E sb \in subscriptions, old \in c.before :
    /\ sb.id = id
    /\ old.id = id
    /\ sb = [old EXCEPT !.is_auto_renewal = FALSE]

\* C20: at the end of a renewal pass every candidate has been taken, and every
\* subscription whose renewal failed has is_auto_renewal false, is otherwise
\* what it was, and was attempted once.
C20_FailedRenewalDisabledOnce ==
  \A p \in Procs :
    PassDone(proc[p])
    => /\ proc[p].cands = {}
       /\ \A id \in proc[p].failed :
            /\ DisabledOnly(proc[p], id)
            /\ Attempts(proc[p], id) = 1

\* C21: when renewSubscription returns after a verified answer that reports the
\* charge as paid, the renewal's record is completed and names a new
\* subscription row of the user; and no renewal record (a subscription record
\* whose charge is a charge-recurrent) is completed without naming such a row.
C21_PaidRenewalLinked ==
  LET IsRenewalRecord(i) ==
        /\ transactions[i].type = "subscription"
        /\ isRecurrentPayment(transactions[i].order_id)
      LinkedToSubscription(i) ==
        /\ transactions[i].user_subscription_id # NoId
        /\ \E sb \in subscriptions :
             /\ sb.id = transactions[i].user_subscription_id
             /\ sb.user_id = transactions[i].user_id
      RenewalCharged(c) ==
        /\ c.op = "processRenewals"
        /\ c.pc \in {"rn_next", "rn_disable"}
        /\ c.tx # NoId
        /\ c.msg # NoMsg
        /\ verifyResponseSignature(c.msg.data, c.msg.sign, SecretKey)
        /\ isRenewalPaid(TRUE, c.msg.data)
  IN
  /\ \A p \in Procs :
       RenewalCharged(proc[p])
       => /\ transactions[proc[p].tx].status = "completed"
          /\ LinkedToSubscription(proc[p].tx)
  /\ \A i \in DOMAIN transactions :
       (IsRenewalRecord(i) /\ transactions[i].status = "completed")
       => LinkedToSubscription(i)

\* C22: a renewal pass that has begun ends, and when it has ended every selected
\* candidate has been attempted and successCount + failureCount is the number of
\* selected candidates.
C22_PassEndsAndCounts ==
  /\ \A p \in Procs : (proc[p].op = "processRenewals") ~> PassDone(proc[p])
  /\ [](\A p \in Procs :
          PassDone(proc[p])
          => /\ proc[p].cands = {}
             /\ Len(proc[p].tried) = proc[p].selected
             /\ proc[p].successCount + proc[p].failureCount = proc[p].selected)

\* A pass of two candidates has ended with one renewed and one failed.
C22_Witness ==
  \E p \in Procs :
    /\ PassDone(proc[p])
    /\ proc[p].selected = 2
    /\ proc[p].successCount = 1
    /\ proc[p].failureCount = 1

(***************************************************************************)
(* Wallet-funded purchases, one request at a time, with nothing else       *)
(* moving money: only the wallet case of createPayment is followed.        *)
(***************************************************************************)
InitPurchase ==
  /\ balances \in
       {[u \in {Buyer} |-> b] : b \in 0..MaxBalance} \cup
       {[u \in Users |-> IF u = Buyer THEN b ELSE 1] : b \in 0..MaxBalance}
  /\ transactions = <<>>
  /\ rowLock = [u \in Users |-> 0]
  /\ proc = [p \in Procs |-> Idle]
  /\ startBalance = balances
  /\ creditLog = <<>>
  /\ tokens = SavedTokens
  /\ subscriptions = {SellerSubscription}
  /\ nextSubId = 2
  /\ platformFees \in
       {<<>>} \cup {<<[FeeRule EXCEPT !.fee_percentage = pct]>> : pct \in {0, 50, 100}}
  /\ orders = {}
  /\ now = 1
  /\ service = NewService

NextPurchase ==
  \E p \in Procs :
    \/ Forget(p)
    \/ Quiet /\ StartCreatePayment(p)
    \/ CpBalance(p)
    \/ CpDebited(p)
    \/ CpCredited(p)
    \/ LedgerStep(p)

SpecPurchase == InitPurchase /\ [][NextPurchase]_vars

(***************************************************************************)
(* mapPaymentStatus over the status values it can be given.                *)
(***************************************************************************)
\* paymentStatus of a payload without the field: paymentStatus?.toLowerCase() is
\* undefined and the switch takes its default.
Missing == "<undefined>"

\* The inputs: the words of the switch in lower case, upper case and capitalized
\* where ToLower knows them, words outside the switch, the empty string, a word
\* of the switch with a blank before it, and a missing value.
StatusInputs ==
  Vocabulary \cup
  {"SUCCESS", "Success", "COMPLETED", "Completed", "PAID", "Paid", "APPROVED", "Approved",
   "WITHDRAW", "Withdraw", "FAILED", "Failed", "ERROR", "Error", "DECLINED", "Declined",
   "REJECTED", "Rejected", "CANCELLED", "Cancelled", "CANCELED", "Canceled",
   "CANCEL", "Cancel", "PENDING", "Pending", "CREATED", "Created",
   Unrecognized, "ON_HOLD", "refunded", "", " success", Missing}

\* mapPaymentStatus(paymentStatus) is called and returns.
MapStatus(p) ==
  \E paymentStatus \in StatusInputs :
    /\ Free(p)
    /\ proc' = [proc EXCEPT ![p] =
         [Idle EXCEPT !.op = "mapPaymentStatus", !.pc = "done", !.kind = paymentStatus,
                      !.snap = mapPaymentStatus(paymentStatus)]]
    /\ UNCHANGED <<balances, transactions, rowLock, startBalance, service, creditLog, others>>

SpecStatus == InitFees /\ [][\E p \in Procs : MapStatus(p)]_vars

(***************************************************************************)
(* The request builders and verifyResponseSignature over the bodies they   *)
(* build and over altered bodies.                                          *)
(***************************************************************************)
\* Buffer.from(JSON.stringify(dataObject)).toString("base64"): the text of the
\* object, injective on the objects the builders make (numbers and strings).
EncodeData(dataObject) == <<"base64", dataObject>>

\* JSON.parse(Buffer.from(data, "base64").toString("utf-8")); a text that is not
\* the encoding of an object does not parse.
DecodeData(data) ==
  IF Len(data) = 2 /\ data[1] = "base64" THEN data[2] ELSE [order_id |-> NoOrder]

\* The dataObject of createPaymentRequestBody, createDepositPaymentRequest,
\* createPaymentStatusRequestBody and createPaymentRecurrentRequestBody.
DataObjects ==
  {[builder |-> "charge-create", amount |-> a, currency |-> "KZT",
    order_id |-> OrderId("pay"), email |-> "buyer@korner", callback_url |-> "payment"] :
     a \in Amounts} \cup
  {[builder |-> "deposit-create", amount |-> a, currency |-> "KZT",
    order_id |-> OrderId("pay"), email |-> "buyer@korner", callback_url |-> "wallet"] :
     a \in Amounts} \cup
  {[builder |-> "charge-status", order_id |-> OrderId(prefix)] :
     prefix \in {"pay", "recurrent"}} \cup
  {[builder |-> "charge-recurrent", token |-> t, amount |-> a,
    order_id |-> OrderId("recurrent")] : t \in {<<"pay", 0>>}, a \in Amounts}

\* { data: dataBase64, sign: createHmac("sha512", config.secretKey)
\*                              .update(dataBase64).digest("hex") }
RequestBody(dataObject) ==
  Message(EncodeData(dataObject), Hmac(SecretKey, EncodeData(dataObject)))

\* A builder makes a body; the body, or one that differs from it in data or in
\* sign, is verified under the same secret and decoded.
BuildAndVerify(p) ==
  \E dataObject \in DataObjects,
     alter \in {"none", "data", "data cut", "sign key", "sign data", "sign case"} :
    LET body == RequestBody(dataObject)
        other == CHOOSE o \in DataObjects : o # dataObject
        data == CASE alter = "data" -> EncodeData(other)
                  [] alter = "data cut" -> <<"base64">>
                  [] OTHER -> body.data
        sign == CASE alter = "sign key" -> Hmac("other key", body.data)
                  [] alter = "sign data" -> Hmac(SecretKey, EncodeData(other))
                  [] alter = "sign case" -> <<"HMAC", SecretKey, body.data>>
                  [] OTHER -> body.sign
    IN
    /\ Free(p)
    /\ proc' = [proc EXCEPT ![p] =
         [Idle EXCEPT !.op = "buildAndVerify", !.pc = "done", !.kind = alter,
                      !.dataObject = dataObject, !.msg = Message(data, sign),
                      !.paid = verifyResponseSignature(data, sign, SecretKey),
                      !.decoded = DecodeData(data)]]
    /\ now' = now + 1
    /\ UNCHANGED <<balances, transactions, rowLock, startBalance, service, creditLog,
                   tokens, subscriptions, nextSubId, platformFees, orders>>

SpecSign == InitFees /\ [][\E p \in Procs : BuildAndVerify(p)]_vars

(***************************************************************************)
(* calculateFee over the rules and amounts it can be given.  The route     *)
(* POST /fee checks only 0 <= fee_percentage <= 100; min_fee_amount and    *)
(* max_fee_amount are stored as sent, 0 standing for null.                 *)
(***************************************************************************)
MaxFeeLimit == 3     \* min_fee_amount, max_fee_amount in 0..MaxFeeLimit
MaxPrice == 12       \* amounts in 0..MaxPrice, in minor units

\* calculateFee(amount, currencyId): the active rule of the currency, if any.
CalculateFee(p) ==
  \E amount \in 0..MaxPrice :
    LET rule == IF ActiveFees = {} THEN NoFee
                ELSE platformFees[CHOOSE i \in ActiveFees : TRUE]
    IN
    /\ Free(p)
    /\ proc' = [proc EXCEPT ![p] =
         [Idle EXCEPT !.op = "calculateFee", !.pc = "done", !.amt = amount,
                      !.fee = calculateFee(amount, rule)]]
    /\ UNCHANGED <<balances, transactions, rowLock, startBalance, service, creditLog, others>>

InitCalc ==
  /\ balances = [u \in {Buyer} |-> 0]
  /\ transactions = <<>>
  /\ rowLock = [u \in Users |-> 0]
  /\ proc = [p \in Procs |-> Idle]
  /\ startBalance = balances
  /\ creditLog = <<>>
  /\ tokens = <<>>
  /\ subscriptions = {}
  /\ nextSubId = 1
  /\ platformFees \in
       {<<>>} \cup
       {<<[FeeRule EXCEPT !.fee_percentage = pct, !.min_fee_amount = lo,
                          !.max_fee_amount = hi]>> :
          pct \in {0, 5, 50, 100}, lo \in 0..MaxFeeLimit, hi \in 0..MaxFeeLimit}
  /\ orders = {}
  /\ now = 1
  /\ service = NewService

SpecCalc == InitCalc /\ [][\E p \in Procs : CalculateFee(p)]_vars

(***************************************************************************)
(* Properties of the fee rules.                                            *)
(***************************************************************************)
\* C23: in every state each currency has at most one active rule in
\* platform_fees, whatever createPlatformFee and updatePlatformFee calls were made
\* and however they interleaved.
C23_OneActiveRulePerCurrency ==
  \A currency_id \in 1..MaxCurrency :
    Cardinality({i \in ActiveFees : platformFees[i].currency_id = currency_id}) <= 1

\* C24 as stated: for every amount and every active rule with min_fee_amount and
\* max_fee_amount both set, calculateFee returns
\* min_fee_amount <= feeAmount <= max_fee_amount and
\* finalAmount = amount - feeAmount.
C24_FeeWithinMinMax ==
  \A p \in Procs :
    (/\ proc[p].op = "calculateFee"
     /\ platformFees # <<>>
     /\ platformFees[1].min_fee_amount # 0
     /\ platformFees[1].max_fee_amount # 0)
    => /\ platformFees[1].min_fee_amount <= proc[p].fee.feeAmount
       /\ proc[p].fee.feeAmount <= platformFees[1].max_fee_amount
       /\ proc[p].fee.finalAmount = proc[p].amt - proc[p].fee.feeAmount

\* C24 amended: the same for the rules with min_fee_amount <= max_fee_amount.
C24_FeeWithinOrderedMinMax ==
  \A p \in Procs :
    (/\ proc[p].op = "calculateFee"
     /\ platformFees # <<>>
     /\ platformFees[1].min_fee_amount # 0
     /\ platformFees[1].max_fee_amount # 0
     /\ platformFees[1].min_fee_amount <= platformFees[1].max_fee_amount)
    => /\ platformFees[1].min_fee_amount <= proc[p].fee.feeAmount
       /\ proc[p].fee.feeAmount <= platformFees[1].max_fee_amount
       /\ proc[p].fee.finalAmount = proc[p].amt - proc[p].fee.feeAmount

\* A fee was raised to the minimum of a rule with min < max, and another was cut
\* to its maximum.
C24_Witness ==
  /\ platformFees # <<>>
  /\ 0 < platformFees[1].min_fee_amount
  /\ platformFees[1].min_fee_amount < platformFees[1].max_fee_amount
  /\ \E p, q \in Procs :
       /\ proc[p].op = "calculateFee"
       /\ proc[q].op = "calculateFee"
       /\ RoundDiv(proc[p].amt * platformFees[1].fee_percentage, 100)
            < platformFees[1].min_fee_amount
       /\ proc[p].fee.feeAmount = platformFees[1].min_fee_amount
       /\ RoundDiv(proc[q].amt * platformFees[1].fee_percentage, 100)
            > platformFees[1].max_fee_amount
       /\ proc[q].fee.feeAmount = platformFees[1].max_fee_amount

C26_SellerCreditFailureKept ==
  [][\A p \in Procs :
       (/\ proc[p].op = "createPayment" /\ proc[p].kind = "wallet"
        /\ proc[p].pc = "cp_credited" /\ proc'[p].pc = "done"
        /\ (proc[p].lres # "success" \/ transactions' = transactions))
       => /\ proc'[p].http = 200 /\ proc'[p].paid
          /\ balances' = balances
          /\ balances'[Buyer] = startBalance[Buyer] - BarPrice
          /\ proc[p].tx \in DOMAIN transactions'
          /\ transactions'[proc[p].tx].user_id = Buyer
          /\ transactions'[proc[p].tx].status = "completed"
          /\ proc[p].lres # "success"
             => /\ HasRow(Seller) <=> Seller \in DOMAIN startBalance
                /\ HasRow(Seller) => balances'[Seller] = startBalance[Seller]]_vars

\* A wallet purchase has returned success with the buyer debited and the seller
\* not credited.
C26_Witness ==
  \E p \in Procs :
    /\ proc[p].op = "createPayment" /\ proc[p].kind = "wallet"
    /\ proc[p].pc = "done" /\ proc[p].paid /\ proc[p].http = 200
    /\ balances[Buyer] = startBalance[Buyer] - BarPrice
    /\ transactions[proc[p].tx].status = "completed"
    /\ creditLog = <<>>
    /\ \A i \in DOMAIN transactions : transactions[i].user_id # Seller

\* C27: mapPaymentStatus returns one of pending, completed, failed, canceled for
\* every input; completed for success, completed, paid, approved, withdraw in any
\* letter case, failed for failed, error, declined, rejected, canceled for
\* cancelled, canceled, cancel, and pending for every other input, a missing
\* value included.
C27_StatusMappingTotal ==
  LET ToCompleted ==
        {"success", "SUCCESS", "Success", "completed", "COMPLETED", "Completed",
         "paid", "PAID", "Paid", "approved", "APPROVED", "Approved",
         "withdraw", "WITHDRAW", "Withdraw"}
      ToFailed ==
        {"failed", "FAILED", "Failed", "error", "ERROR", "Error",
         "declined", "DECLINED", "Declined", "rejected", "REJECTED", "Rejected"}
      ToCanceled ==
        {"cancelled", "CANCELLED", "Cancelled", "canceled", "CANCELED", "Canceled",
         "cancel", "CANCEL", "Cancel"}
  IN \A p \in Procs :
       proc[p].op = "mapPaymentStatus"
       => /\ proc[p].snap \in {"pending", "completed", "failed", "canceled"}
          /\ proc[p].snap = "completed" <=> proc[p].kind \in ToCompleted
          /\ proc[p].snap = "failed" <=> proc[p].kind \in ToFailed
          /\ proc[p].snap = "canceled" <=> proc[p].kind \in ToCanceled

\* Upper-case words of three groups, a word outside the switch and a missing
\* value have been mapped.
C27_Witness ==
  \E p, q, r \in Procs :
    /\ proc[p].op = "mapPaymentStatus" /\ proc[p].kind = "PAID"
    /\ proc[p].snap = "completed"
    /\ proc[q].op = "mapPaymentStatus" /\ proc[q].kind \in {Missing, "refunded"}
    /\ proc[q].snap = "pending"
    /\ proc[r].op = "mapPaymentStatus" /\ proc[r].kind \in {"Rejected", "CANCEL"}
    /\ proc[r].snap \in {"failed", "canceled"}

(***************************************************************************)
(* Properties of the renewal service's timers.                             *)
(***************************************************************************)
\* C28: once stop() has been called no pass begins, and every pass that was in
\* flight when stop() was called ends.
C28_StopEndsScheduling ==
  /\ [][service.stopped
        => \A p \in Procs : proc'[p].op = "processRenewals"
                             => proc[p].op = "processRenewals"]_vars
  /\ \A p \in Procs : (p \in service.atStop) ~> PassDone(proc[p])

\* stop() was called during a pass and with a timer armed; the pass has ended.
C28_Witness ==
  /\ service.stopped
  /\ service.timers = {}
  /\ \E p \in service.atStop :
       /\ PassDone(proc[p])
       /\ Len(proc[p].tried) > 0

C30_LostAnswerResolvable ==
  [][\A p \in Procs :
       (GatewayCallFails(p) /\ \E g \in orders : g.id = proc[p].order)
       => /\ transactions'[proc[p].tx].status = "pending"
          /\ proc[p].tx \in getTransactionByOrderId(proc[p].order)
          /\ UNCHANGED transactions]_vars

(***************************************************************************)
(* Properties of the renewal passes of one service.                        *)
(***************************************************************************)
\* C31: a subscription about to expire is renewed by at most one pass: over the
\* pass at start, the pass at midnight and the passes of the interval, at most
\* one has charged it with success.
C31_RenewedOncePerPeriod ==
  LET Renewed(c, id) ==
        /\ c.op = "processRenewals"
        /\ \E k \in DOMAIN c.tried : c.tried[k] = id
        /\ id \notin c.failed
        /\ ~(c.cur = id /\ c.pc \in {"rn_record", "rn_send", "rn_response", "rn_disable"})
  IN \A sb \in subscriptions :
       sb.expires = "soon"
       => Cardinality({p \in Procs : Renewed(proc[p], sb.id)}) <= 1

\* C32: within one pass every subscription is attempted at most once, whatever
\* the number of price rows of its plan.
C32_OneAttemptPerPass ==
  \A p \in Procs :
    proc[p].op = "processRenewals"
    => \A sb \in proc[p].before : Attempts(proc[p], sb.id) <= 1

(***************************************************************************)
(* Properties of concurrent deliveries of a callback.                      *)
(***************************************************************************)
\* C33: under every interleaving of the deliveries of the successful callback
\* of a card purchase, the seller's wallet is credited at most once for the
\* order.
C33_ConcurrentDeliveriesCreditOnce ==
  \A g \in ChargesOf("payment") :
    (~isRecurrentPayment(g.id) /\ OnlySuccessSent(g))
    => Len(CreditsFor(Seller, g.id)) <= 1

(***************************************************************************)
(* Properties of the subscription payments.                                *)
(***************************************************************************)
\* C34: every completed subscription record has its subscription: the row its
\* user_subscription_id names, or a row created for the payment of its
\* order_id.
C34_CompletedHasSubscription ==
  \A i \in DOMAIN transactions :
    (transactions[i].type = "subscription" /\ transactions[i].status = "completed")
    => \/ \E sb \in subscriptions :
            /\ sb.id = transactions[i].user_subscription_id
            /\ sb.user_id = transactions[i].user_id
       \/ /\ transactions[i].order_id # NoOrder
          /\ \E sb \in SubscriptionsFor(transactions[i].order_id) :
               sb.user_id = transactions[i].user_id

(***************************************************************************)
(* Properties of the top-up records.                                       *)
(***************************************************************************)
\* C35: every completed top-up record (type deposit, source card, no bar) has
\* exactly one committed increase of its user's balance, of the record's
\* amount, made for its order.
C35_CompletedTopUpCreditedOnce ==
  \A i \in DOMAIN transactions :
    (/\ transactions[i].type = "deposit"
     /\ transactions[i].source = "card"
     /\ transactions[i].bar_id = NoId
     /\ transactions[i].status = "completed")
    => LET credits == CreditsFor(transactions[i].user_id, transactions[i].order_id)
       IN /\ Len(credits) = 1
          /\ credits[1].amount = transactions[i].amount

(***************************************************************************)
(* Properties of the token-funded operations.                              *)
(***************************************************************************)
\* C36: when a token-funded createPayment, topUp or subscription create returns
\* after a verified answer of the gateway, the attempt's record is completed if
\* the call reports isPaymentSuccessful true and is not completed if it reports
\* false.
C36_ReportMatchesRecord ==
  [][\A p \in Procs :
       LET c == proc'[p]
           reportsTrue == \/ c.op \in {"createPayment", "createSubscription"} /\ c.paid
                          \/ c.op = "topUp" /\ c.http = 200
       IN
       (/\ proc[p].pc # "done"
        /\ c.pc = "done"
        /\ c.op \in {"createPayment", "topUp", "createSubscription"}
        /\ c.kind = "token"
        /\ c.msg # NoMsg
        /\ verifyResponseSignature(c.msg.data, c.msg.sign, SecretKey))
       => (reportsTrue <=> transactions'[c.tx].status = "completed")]_vars

(***************************************************************************)
(* Properties of the seller's net amount.                                  *)
(***************************************************************************)
\* C37: for every price above zero and every active rule, the net amount
\* calculateFee returns for the seller is at least zero and at most the price.
C37_NetAmountWithinPrice ==
  \A p \in Procs :
    (proc[p].op = "calculateFee" /\ proc[p].amt > 0)
    => /\ 0 <= proc[p].fee.finalAmount
       /\ proc[p].fee.finalAmount <= proc[p].amt

(***************************************************************************)
(* Properties of the charge-recurrent requests.                            *)
(***************************************************************************)
\* C38: every step that sends a charge-recurrent request for a user sends the
\* token of a row of payment_tokens whose user_id is that user.
C38_ChargesOwnToken ==
  [][\A p \in Procs :
       (/\ proc'[p].pc \in {"cp_response", "tu_response", "cs_response", "rc_response",
                            "rn_response"}
        /\ proc'[p].pc # proc[p].pc
        /\ proc'[p].kind = "token" \/ proc'[p].op = "processRenewals")
       => getPaymentTokenById(proc'[p].token, proc'[p].user)]_vars

(***************************************************************************)
(* Wallet-funded subscription purchases under concurrent requests: only    *)
(* the wallet case of subscriptionService.create is followed.              *)
(***************************************************************************)
InitSubscribe ==
  /\ balances \in {[u \in {Buyer} |-> b] : b \in 0..MaxBalance}
  /\ transactions = <<>>
  /\ rowLock = [u \in Users |-> 0]
  /\ proc = [p \in Procs |-> Idle]
  /\ startBalance = balances
  /\ creditLog = <<>>
  /\ tokens = SavedTokens
  /\ subscriptions = {}
  /\ nextSubId = 1
  /\ platformFees = <<FeeRule>>
  /\ orders = {}
  /\ now = 1
  /\ service = NewService

NextSubscribe ==
  \E p \in Procs :
    \/ StartCreateSubscription(p)
    \/ CsRecord(p)
    \/ CsBalance(p)
    \/ CsSubscribe(p)
    \/ CsDebited(p)
    \/ DeductRead(p)
    \/ DeductDecrement(p)
    \/ DeductFail(p)
    \/ DeductInsert(p)

SpecSubscribe == InitSubscribe /\ [][NextSubscribe]_vars

\* C39: the step in which a wallet-funded subscription purchase ends after its
\* debit failed leaves no subscription row of the attempt, changes no balance,
\* and the attempt has no debit row.
C39_FailedDebitLeavesNothing ==
  [][\A p \in Procs :
       (/\ proc[p].pc = "cs_debited"
        /\ proc[p].lres # "success"
        /\ proc'[p].pc = "done")
       => /\ proc'[p].http = 500
          /\ \A sb \in subscriptions' : sb.id # proc[p].sub
          /\ balances' = balances
          /\ \A i \in DOMAIN transactions' :
               transactions'[i].user_subscription_id # proc[p].sub]_vars

====
